---- MODULE Spec2Model ----
(***************************************************************************)
(* Model of src/task_scheduler.py: the temporal codec (from_duration_str,  *)
(* to_duration_str, from_date_str, to_date_str) under Spec, the wrapper    *)
(* collections and the dispatch on ActionType / TriggerType under          *)
(* CollectionSpec, the cached sub-objects under CacheSpec, the properties  *)
(* kept as duration strings under PropertySpec, the TaskService singleton  *)
(* under ServiceSpec, the folders and tasks of the root folder under       *)
(* FolderSpec, TaskSettings.priority under PrioritySpec and                *)
(* TaskNamedValuePair under PairSpec.                                      *)
(*                                                                         *)
(* A Python str is a sequence of one-character strings, so that scanning,  *)
(* int() and f-string formatting are computed character by character.      *)
(* Python's None is the record None; an exception leaves a record          *)
(* [raised |-> <exception name>] in place of the return value.             *)
(***************************************************************************)
EXTENDS Integers, Sequences, FiniteSets, TLC

None == [none |-> TRUE]

(***************************************************************************)
(* Bounds of the checked inputs.                                           *)
(***************************************************************************)
\* numerals 0..MaxNumeral are written into duration strings
MaxNumeral == 1
\* a numeral beyond every carry limit of relativedelta (12, 24, 60)
CarryNumeral == 60
\* constructor arguments -MaxNegative, 0..MaxArg and CarryNumeral build the
\* offsets
MaxNegative == 1
MaxArg == 1
\* raw strings over RawAlphabet have at most this many characters
MaxRawLen == 4
\* calls chained on one input
MaxCalls == 2
\* the longest collection
MaxItems == 2

(***************************************************************************)
(* Characters and numerals.                                                *)
(***************************************************************************)
DigitChars == <<"0", "1", "2", "3", "4", "5", "6", "7", "8", "9">>

\* str.isdigit for one character, as \d sees it
IsDigit(c) == \E k \in 1..10 : DigitChars[k] = c

DigitValue(c) == (CHOOSE k \in 1..10 : DigitChars[k] = c) - 1

\* int(text) of a run of decimal digits
RECURSIVE int(_)
int(t) ==
    IF Len(t) = 0 THEN 0
    ELSE int(SubSeq(t, 1, Len(t) - 1)) * 10 + DigitValue(t[Len(t)])

\* str(n), the decimal text an f-string {n} produces
RECURSIVE str(_)
str(n) ==
    IF n < 0 THEN <<"-">> \o str(0 - n)
    ELSE IF n < 10 THEN <<DigitChars[n + 1]>>
    ELSE str(n \div 10) \o <<DigitChars[(n % 10) + 1]>>

\* "".join(parts)
RECURSIVE join(_)
join(parts) ==
    IF Len(parts) = 0 THEN <<>>
    ELSE Head(parts) \o join(Tail(parts))

\* lower-case spelling of the letters of the duration grammar
LowerOf(c) ==
    CASE c = "P" -> "p"
      [] c = "Y" -> "y"
      [] c = "M" -> "m"
      [] c = "D" -> "d"
      [] c = "T" -> "t"
      [] c = "H" -> "h"
      [] c = "S" -> "s"
      [] OTHER -> c

\* LiteralMatches without re.IGNORECASE
LiteralMatches_exact(c, lit) == c = lit

\* a pattern literal under re.IGNORECASE
LiteralMatches(c, lit) == c = lit \/ c = LowerOf(lit)

(***************************************************************************)
(* relativedelta(years=, months=, days=, hours=, minutes=, seconds=):      *)
(* the constructor stores the arguments and calls _fix(), which carries    *)
(* seconds into minutes, minutes into hours, hours into days and months    *)
(* into years, each with the sign of the carried field.                    *)
(***************************************************************************)
Sign(x) == IF x < 0 THEN 0 - 1 ELSE 1

Abs(x) == IF x < 0 THEN 0 - x ELSE x

\* the part of field x kept by _fix: mod * s
Kept(x, limit) == IF Abs(x) > limit - 1 THEN (Abs(x) % limit) * Sign(x) ELSE x

\* the part carried to the next field by _fix: div * s
Carried(x, limit) == IF Abs(x) > limit - 1 THEN (Abs(x) \div limit) * Sign(x) ELSE 0

relativedelta(years, months, days, hours, minutes, seconds) ==
    LET s   == Kept(seconds, 60)
        mi0 == minutes + Carried(seconds, 60)
        mi  == Kept(mi0, 60)
        h0  == hours + Carried(mi0, 60)
        h   == Kept(h0, 24)
        d   == days + Carried(h0, 24)
        mo  == Kept(months, 12)
        y   == years + Carried(months, 12)
    IN  [years |-> y, months |-> mo, days |-> d,
         hours |-> h, minutes |-> mi, seconds |-> s]

(***************************************************************************)
(* duration_pattern.match(string): the pattern                             *)
(*   P(?:(\d+)Y)?(?:(\d+)M)?(?:(\d+)D)?T(?:(\d+)H)?(?:(\d+)M)?(?:(\d+)S)?  *)
(* matched at the start of the string, with nothing required after it.     *)
(***************************************************************************)
\* the index after the longest run of digits starting at i: greedy \d+
RECURSIVE DigitsEnd(_, _)
DigitsEnd(s, i) ==
    IF i <= Len(s) /\ IsDigit(s[i]) THEN DigitsEnd(s, i + 1) ELSE i

\* (?:(\d+)<unit>)? at index i: the group's text, or None when the group
\* does not take part; next is where the match goes on.  A shorter run of
\* digits cannot help, since it would be followed by a digit, not the unit.
OptionalGroup(s, i, unit) ==
    LET e == DigitsEnd(s, i)
    IN  IF e > i /\ e <= Len(s) /\ LiteralMatches(s[e], unit)
        THEN [group |-> [text |-> SubSeq(s, i, e - 1)], next |-> e + 1]
        ELSE [group |-> None, next |-> i]

\* the six groups of the match, or None when the pattern does not match
duration_pattern_match(s) ==
    IF ~(Len(s) >= 1 /\ LiteralMatches(s[1], "P")) THEN None
    ELSE
      LET g1 == OptionalGroup(s, 2, "Y")
          g2 == OptionalGroup(s, g1.next, "M")
          g3 == OptionalGroup(s, g2.next, "D")
      IN  IF ~(g3.next <= Len(s) /\ LiteralMatches(s[g3.next], "T")) THEN None
          ELSE
            LET g4 == OptionalGroup(s, g3.next + 1, "H")
                g5 == OptionalGroup(s, g4.next, "M")
                g6 == OptionalGroup(s, g5.next, "S")
            IN  [groups |-> <<g1.group, g2.group, g3.group,
                              g4.group, g5.group, g6.group>>,
                 end |-> g6.next - 1]

\* GroupInt reading only the first digit of the group
GroupInt_first_digit(match, k) ==
    IF match.groups[k] = None THEN 0 ELSE DigitValue(match.groups[k].text[1])

\* 0 if match.group(k) is None else int(match.group(k))
GroupInt(match, k) ==
    IF match.groups[k] = None THEN 0 ELSE int(match.groups[k].text)

\* from_duration_str without the all-zero check
from_duration_str_keep_zero(string) ==
    IF string = <<>> THEN None
    ELSE
      LET match == duration_pattern_match(string)
      IN  IF match = None THEN None
          ELSE relativedelta(GroupInt(match, 1), GroupInt(match, 2),
                             GroupInt(match, 3), GroupInt(match, 4),
                             GroupInt(match, 5), GroupInt(match, 6))

\* from_duration_str taking months from group 5 and minutes from group 2
from_duration_str_swapped(string) ==
    IF string = <<>> THEN None
    ELSE
      LET match == duration_pattern_match(string)
      IN  IF match = None THEN None
          ELSE
            LET years   == GroupInt(match, 1)
                months  == GroupInt(match, 5)
                days    == GroupInt(match, 3)
                hours   == GroupInt(match, 4)
                minutes == GroupInt(match, 2)
                seconds == GroupInt(match, 6)
            IN  IF years + months + days + hours + minutes + seconds = 0
                THEN None
                ELSE relativedelta(years, months, days, hours, minutes, seconds)

from_duration_str(string) ==
    IF string = <<>> THEN None
    ELSE
      LET match == duration_pattern_match(string)
      IN  IF match = None THEN None
          ELSE
            LET years   == GroupInt(match, 1)
                months  == GroupInt(match, 2)
                days    == GroupInt(match, 3)
                hours   == GroupInt(match, 4)
                minutes == GroupInt(match, 5)
                seconds == GroupInt(match, 6)
            IN  IF years + months + days + hours + minutes + seconds = 0
                THEN None
                ELSE relativedelta(years, months, days, hours, minutes, seconds)

\* AppendPart with the test n != 0
AppendPart_nonzero(parts, n, unit) ==
    IF n # 0 THEN Append(parts, str(n) \o <<unit>>) ELSE parts

\* AppendPart with the test n > 1
AppendPart_above_one(parts, n, unit) ==
    IF n > 1 THEN Append(parts, str(n) \o <<unit>>) ELSE parts

\* parts.append(f"{n}<unit>") when n > 0
AppendPart(parts, n, unit) ==
    IF n > 0 THEN Append(parts, str(n) \o <<unit>>) ELSE parts

\* to_duration_str without the len(parts) == 2 test
to_duration_str_bare(rd, default) ==
    IF rd = None THEN default
    ELSE join(AppendPart(AppendPart(AppendPart(
              Append(AppendPart(AppendPart(AppendPart(
                  <<<<"P">>>>, rd.years, "Y"), rd.months, "M"), rd.days, "D"),
                  <<"T">>),
              rd.hours, "H"), rd.minutes, "M"), rd.seconds, "S"))

\* to_duration_str appending "T" only before a time component
to_duration_str_late_T(rd, default) ==
    IF rd = None THEN default
    ELSE
      LET p3 == AppendPart(AppendPart(AppendPart(
                    <<<<"P">>>>, rd.years, "Y"), rd.months, "M"), rd.days, "D")
          pT == IF rd.hours > 0 \/ rd.minutes > 0 \/ rd.seconds > 0
                THEN Append(p3, <<"T">>) ELSE p3
          p6 == AppendPart(AppendPart(AppendPart(
                    pT, rd.hours, "H"), rd.minutes, "M"), rd.seconds, "S")
      IN  IF Len(p6) = 1 THEN default ELSE join(p6)

to_duration_str(rd, default) ==
    IF rd = None THEN default
    ELSE
      LET p0 == <<<<"P">>>>
          p1 == AppendPart(p0, rd.years, "Y")
          p2 == AppendPart(p1, rd.months, "M")
          p3 == AppendPart(p2, rd.days, "D")
          pT == Append(p3, <<"T">>)
          p4 == AppendPart(pT, rd.hours, "H")
          p5 == AppendPart(p4, rd.minutes, "M")
          p6 == AppendPart(p5, rd.seconds, "S")
      IN  IF Len(p6) = 2 THEN default ELSE join(p6)

\* the default of to_duration_str's parameter `default`
PT0S == <<"P", "T", "0", "S">>

(***************************************************************************)
(* datetime.fromisoformat(string), as CPython 3.11 computes it for ASCII   *)
(* strings without an ISO week designator: the date YYYY-MM-DD or          *)
(* YYYYMMDD, any one separator character, the time HH[:MM[:SS[.f+]]] or    *)
(* HH[MM[SS[.f+]]], and a zone Z or +-HH[:MM[:SS[.f+]]].  A datetime is    *)
(* the record of its fields; tzinfo is None or the UTC offset.             *)
(***************************************************************************)
ValueError == [raised |-> "ValueError"]

\* the character at index i, NUL past the end of the string
NUL == "NUL"

At(s, i) == IF i \in 1..Len(s) THEN s[i] ELSE NUL

\* parse_digits: n digits starting at index i, or failure
RECURSIVE parse_digits(_, _, _)
parse_digits(s, i, n) ==
    IF n = 0 THEN [ok |-> TRUE, val |-> 0, next |-> i]
    ELSE
      LET front == parse_digits(s, i, n - 1)
      IN  IF front.ok /\ IsDigit(At(s, front.next))
          THEN [ok |-> TRUE,
                val |-> front.val * 10 + DigitValue(At(s, front.next)),
                next |-> front.next + 1]
          ELSE [ok |-> FALSE, val |-> 0, next |-> i]

\* the factor that scales n < 6 fraction digits to microseconds
FractionCorrection(n) ==
    CASE n = 1 -> 100000
      [] n = 2 -> 10000
      [] n = 3 -> 1000
      [] n = 4 -> 100
      [] n = 5 -> 10
      [] OTHER -> 1

\* the fraction after the seconds: up to six digits are read, more are
\* skipped; rv is 1 when something other than the end follows
ParseFraction(s, p, pend, vals) ==
    LET remains == pend - p
        toParse == IF remains >= 6 THEN 6 ELSE remains
        d       == parse_digits(s, p, toParse)
    IN  IF ~d.ok THEN [rv |-> 0 - 3, vals |-> vals, microsecond |-> 0]
        ELSE [rv |-> IF At(s, DigitsEnd(s, d.next)) = NUL THEN 0 ELSE 1,
              vals |-> vals,
              microsecond |-> d.val * FractionCorrection(toParse)]

\* the loop of parse_hh_mm_ss_ff over hour, minute, second (k = 1, 2, 3)
RECURSIVE ParseClock(_, _, _, _, _, _)
ParseClock(s, p, pend, k, hasSeparator, vals) ==
    LET d == parse_digits(s, p, 2)
    IN  IF ~d.ok THEN [rv |-> 0 - 3, vals |-> vals, microsecond |-> 0]
        ELSE
          LET c    == At(s, d.next)
              p1   == d.next + 1
              sep  == IF k = 1 THEN c = ":" ELSE hasSeparator
              done == [vals EXCEPT ![k] = d.val]
          IN  IF p1 >= pend
              THEN [rv |-> IF c = NUL THEN 0 ELSE 1,
                    vals |-> done, microsecond |-> 0]
              ELSE IF sep /\ c = ":"
              THEN (IF k = 3 THEN ParseFraction(s, p1, pend, done)
                    ELSE ParseClock(s, p1, pend, k + 1, sep, done))
              ELSE IF c \in {".", ","}
              THEN ParseFraction(s, p1, pend, done)
              ELSE IF ~sep
              THEN (IF k = 3 THEN ParseFraction(s, p1 - 1, pend, done)
                    ELSE ParseClock(s, p1 - 1, pend, k + 1, sep, done))
              ELSE [rv |-> 0 - 4, vals |-> done, microsecond |-> 0]

parse_hh_mm_ss_ff(s, p, pend) == ParseClock(s, p, pend, 1, TRUE, <<0, 0, 0>>)

\* the index of the first Z, + or - at or after i, pend when there is none
RECURSIVE ZonePosition(_, _, _)
ZonePosition(s, i, pend) ==
    IF i >= pend THEN pend
    ELSE IF s[i] \in {"Z", "+", "-"} THEN i
    ELSE ZonePosition(s, i + 1, pend)

\* tzinfo_from_isoformat_results: an offset of zero whole seconds gives UTC,
\* whatever its microseconds are
tzinfo_from_isoformat_results(tzoffset, tz_useconds) ==
    IF tzoffset = 0 THEN [offset |-> 0, microseconds |-> 0]
    ELSE [offset |-> tzoffset, microseconds |-> tz_useconds]

\* parse_isoformat_time on the text from index p on: the clock fields and
\* the zone, or a failure
parse_isoformat_time(s, p) ==
    LET pend  == Len(s) + 1
        zone  == IF p >= pend THEN p + 1 ELSE ZonePosition(s, p, pend)
        clock == parse_hh_mm_ss_ff(s, p, zone)
        naive == [ok |-> TRUE, vals |-> clock.vals,
                  microsecond |-> clock.microsecond, tzinfo |-> None]
        bad   == [ok |-> FALSE, vals |-> <<0, 0, 0>>,
                  microsecond |-> 0, tzinfo |-> None]
    IN  IF clock.rv < 0 THEN bad
        ELSE IF zone >= pend THEN (IF clock.rv = 1 THEN bad ELSE naive)
        ELSE IF s[zone] = "Z"
        THEN (IF At(s, zone + 1) # NUL THEN bad
              ELSE [naive EXCEPT !.tzinfo = [offset |-> 0, microseconds |-> 0]])
        ELSE
          LET tz   == parse_hh_mm_ss_ff(s, zone + 1, pend)
              sign == IF s[zone] = "-" THEN 0 - 1 ELSE 1
          IN  IF tz.rv # 0 THEN bad
              ELSE [naive EXCEPT !.tzinfo =
                      tzinfo_from_isoformat_results(
                          sign * (tz.vals[1] * 3600 + tz.vals[2] * 60
                                  + tz.vals[3]),
                          sign * tz.microsecond)]

\* _find_isoformat_datetime_separator: the length of the date part
DateLength(s) ==
    IF Len(s) = 7 THEN 7 ELSE IF s[5] = "-" THEN 10 ELSE 8

\* parse_isoformat_date: year, month, day, or failure
parse_isoformat_date(s) ==
    LET y    == parse_digits(s, 1, 4)
        dash == At(s, 5) = "-"
        m    == parse_digits(s, IF dash THEN 6 ELSE 5, 2)
        d    == parse_digits(s, IF dash THEN m.next + 1 ELSE m.next, 2)
    IN  IF y.ok /\ m.ok /\ (dash => At(s, m.next) = "-") /\ d.ok
        THEN [ok |-> TRUE, year |-> y.val, month |-> m.val, day |-> d.val]
        ELSE [ok |-> FALSE, year |-> 0, month |-> 0, day |-> 0]

IsLeap(year) == year % 4 = 0 /\ (year % 100 # 0 \/ year % 400 = 0)

DaysInMonth(year, month) ==
    IF month = 2 THEN (IF IsLeap(year) THEN 29 ELSE 28)
    ELSE IF month \in {4, 6, 9, 11} THEN 30 ELSE 31

\* the range checks of the datetime and timezone constructors
ValidFields(date, time) ==
    /\ date.year \in 1..9999
    /\ date.month \in 1..12
    /\ date.day \in 1..DaysInMonth(date.year, date.month)
    /\ time.vals[1] \in 0..23
    /\ time.vals[2] \in 0..59
    /\ time.vals[3] \in 0..59
    \* strictly between -24 h and +24 h; the microseconds carry the sign of
    \* the offset and are below one second
    /\ time.tzinfo # None => time.tzinfo.offset \in (0 - 86399)..86399

fromisoformat(s) ==
    IF Len(s) < 7 THEN ValueError
    ELSE
      LET date == parse_isoformat_date(s)
          rest == DateLength(s) + 2
          time == IF Len(s) > DateLength(s)
                  THEN parse_isoformat_time(s, rest)
                  ELSE [ok |-> TRUE, vals |-> <<0, 0, 0>>,
                        microsecond |-> 0, tzinfo |-> None]
      IN  IF ~date.ok \/ ~time.ok THEN ValueError
          ELSE IF ~ValidFields(date, time) THEN ValueError
          ELSE [year |-> date.year, month |-> date.month, day |-> date.day,
                hour |-> time.vals[1], minute |-> time.vals[2],
                second |-> time.vals[3], microsecond |-> time.microsecond,
                tzinfo |-> time.tzinfo]

\* from_date_str without the empty-string test
from_date_str_unguarded(string) == fromisoformat(string)

\* from_date_str made as lenient as from_duration_str
from_date_str_lenient(string) ==
    IF string = <<>> \/ fromisoformat(string) = ValueError
    THEN None ELSE fromisoformat(string)

from_date_str(string) ==
    IF string = <<>> THEN None ELSE fromisoformat(string)

(***************************************************************************)
(* datetime.isoformat() with its default arguments (separator T, timespec  *)
(* auto): the fields zero-padded, the microseconds when they are not zero, *)
(* and the UTC offset of an aware datetime.                                *)
(***************************************************************************)
\* "%0<width>d" % n
ZeroPad(n, width) ==
    LET t == str(n)
    IN  IF Len(t) >= width THEN t
        ELSE [k \in 1..(width - Len(t)) |-> "0"] \o t

\* _format_offset: +-HH:MM, then :SS when the offset has seconds or
\* microseconds, then .ffffff when it has microseconds
format_offset(off) ==
    IF off = None THEN <<>>
    ELSE
      LET sign == IF off.offset < 0 \/ off.microseconds < 0 THEN "-" ELSE "+"
          secs == Abs(off.offset)
          us   == Abs(off.microseconds)
          hh   == secs \div 3600
          mm   == (secs % 3600) \div 60
          ss   == secs % 60
      IN  <<sign>> \o ZeroPad(hh, 2) \o <<":">> \o ZeroPad(mm, 2)
          \o (IF ss # 0 \/ us # 0 THEN <<":">> \o ZeroPad(ss, 2) ELSE <<>>)
          \o (IF us # 0 THEN <<".">> \o ZeroPad(us, 6) ELSE <<>>)

\* isoformat that leaves the UTC offset out
isoformat_no_offset(dt) ==
    ZeroPad(dt.year, 4) \o <<"-">> \o ZeroPad(dt.month, 2) \o <<"-">>
    \o ZeroPad(dt.day, 2) \o <<"T">>
    \o ZeroPad(dt.hour, 2) \o <<":">> \o ZeroPad(dt.minute, 2) \o <<":">>
    \o ZeroPad(dt.second, 2)
    \o (IF dt.microsecond # 0 THEN <<".">> \o ZeroPad(dt.microsecond, 6)
        ELSE <<>>)

isoformat(dt) ==
    ZeroPad(dt.year, 4) \o <<"-">> \o ZeroPad(dt.month, 2) \o <<"-">>
    \o ZeroPad(dt.day, 2) \o <<"T">>
    \o ZeroPad(dt.hour, 2) \o <<":">> \o ZeroPad(dt.minute, 2) \o <<":">>
    \o ZeroPad(dt.second, 2)
    \o (IF dt.microsecond # 0 THEN <<".">> \o ZeroPad(dt.microsecond, 6)
        ELSE <<>>)
    \o format_offset(dt.tzinfo)

to_date_str(dt, default) ==
    IF dt = None THEN default ELSE isoformat(dt)

(***************************************************************************)
(* The inputs handed to the codec.                                         *)
(***************************************************************************)
Units == <<"Y", "M", "D", "H", "M", "S">>

\* the numerals written into duration strings
Numerals == {str(n) : n \in (0..MaxNumeral) \cup {CarryNumeral}}

\* a component as written: left out (None) or a numeral
Tokens == {None} \cup {[text |-> n] : n \in Numerals}

\* how a written string departs from the upper-case sentence of its tokens
Styles == {"plain", "lower", "padded", "noT", "junk", "extra", "lowerjunk"}

\* the tokens of the strings written in another style than "plain"
StyledTokens == {None, [text |-> str(MaxNumeral)], [text |-> str(CarryNumeral)]}

Writings ==
    [comps : [1..6 -> Tokens], style : {"plain"}]
    \cup [comps : [1..6 -> StyledTokens], style : Styles \ {"plain"}]

WrittenUnit(w, k) ==
    IF w.style \in {"lower", "lowerjunk"} THEN LowerOf(Units[k]) ELSE Units[k]

WrittenComp(w, k) ==
    IF w.comps[k] = None THEN <<>>
    ELSE (IF w.style = "padded" THEN <<"0">> ELSE <<>>)
         \o w.comps[k].text \o <<WrittenUnit(w, k)>>

\* the string a writing stands for
Written(w) ==
    <<IF w.style \in {"lower", "lowerjunk"} THEN "p" ELSE "P">>
    \o WrittenComp(w, 1) \o WrittenComp(w, 2) \o WrittenComp(w, 3)
    \o (CASE w.style = "noT" -> <<>>
          [] w.style \in {"lower", "lowerjunk"} -> <<"t">>
          [] OTHER -> <<"T">>)
    \o WrittenComp(w, 4) \o WrittenComp(w, 5) \o WrittenComp(w, 6)
    \o (CASE w.style \in {"junk", "lowerjunk"} -> <<"X">>
          [] w.style = "extra" -> <<"1", "Y">>
          [] OTHER -> <<>>)

\* the integer a token denotes, 0 when it is left out
TokenValue(tok) == IF tok = None THEN 0 ELSE int(tok.text)

RawAlphabet == {"P", "T", "0", "1", "S", "X"}

RawStrings == UNION {[1..n -> RawAlphabet] : n \in 0..MaxRawLen}

NotADuration ==
    <<"n", "o", "t", "-", "a", "-", "d", "u", "r", "a", "t", "i", "o", "n">>

\* the date parts written into date strings; ok tells whether the text is a
\* calendar date YYYY-MM-DD that exists
DateParts ==
    {[text |-> <<"2", "0", "2", "4", "-", "0", "2", "-", "2", "9">>, ok |-> TRUE],
     [text |-> <<"2", "0", "2", "3", "-", "0", "2", "-", "2", "9">>, ok |-> FALSE],
     [text |-> <<"2", "0", "2", "4", "-", "2", "-", "2", "9">>, ok |-> FALSE],
     [text |-> <<"2", "0", "2", "4", "-", "1", "3", "-", "0", "1">>, ok |-> FALSE]}

\* the characters written between date and time
SeparatorParts == {<<"T">>, <<" ">>, <<"x">>}

\* the times of day written into date strings; ok tells whether the text is
\* a time HH:MM:SS or HH:MM that exists
TimeParts ==
    {[text |-> <<>>, ok |-> FALSE, hour |-> 0, minute |-> 0, second |-> 0],
     [text |-> <<"1", "0", ":", "3", "0", ":", "5", "9">>, ok |-> TRUE, hour |-> 10, minute |-> 30, second |-> 59],
     [text |-> <<"0", "0", ":", "0", "0", ":", "0", "0">>, ok |-> TRUE, hour |-> 0, minute |-> 0, second |-> 0],
     [text |-> <<"2", "5", ":", "0", "0", ":", "0", "0">>, ok |-> FALSE, hour |-> 25, minute |-> 0, second |-> 0],
     [text |-> <<"1", "0", ":", "3", "0", ":", "5">>, ok |-> FALSE, hour |-> 10, minute |-> 30, second |-> 5],
     [text |-> <<"1", "0", ":", "3", "0">>, ok |-> TRUE, hour |-> 10, minute |-> 30, second |-> 0]}

\* the UTC offsets written into date strings; ok tells whether the text is
\* empty or an offset +-HH:MM below 24 hours
ZoneParts ==
    {[text |-> <<>>, ok |-> TRUE, tzinfo |-> None],
     [text |-> <<"+", "0", "1", ":", "0", "0">>, ok |-> TRUE,
      tzinfo |-> [offset |-> 3600, microseconds |-> 0]],
     [text |-> <<"-", "0", "5", ":", "3", "0">>, ok |-> TRUE,
      tzinfo |-> [offset |-> 0 - 19800, microseconds |-> 0]],
     [text |-> <<"+", "2", "4", ":", "0", "0">>, ok |-> FALSE, tzinfo |-> None],
     [text |-> <<"+", "1", ":", "0", "0">>, ok |-> FALSE, tzinfo |-> None]}

DateWritings ==
    [date : DateParts, separator : SeparatorParts, time : TimeParts,
     zone : ZoneParts, junk : BOOLEAN]

\* the string a date writing stands for; a writing without a time of day
\* has no separator and no zone either
WrittenDate(w) ==
    w.date.text
    \o (IF w.time.text = <<>> THEN <<>>
        ELSE w.separator \o w.time.text \o w.zone.text)
    \o (IF w.junk THEN <<"X">> ELSE <<>>)

NotADate == <<"n", "o", "t", "-", "a", "-", "d", "a", "t", "e">>

\* the datetime values a caller can hold: calendar dates, times of day,
\* microseconds, and no tzinfo or a timezone of a fixed UTC offset
InstantDates == {<<2024, 2, 29>>, <<1, 1, 1>>, <<987, 10, 5>>, <<9999, 12, 31>>}

InstantTimes == {<<0, 0, 0>>, <<10, 30, 59>>, <<23, 59, 59>>}

InstantMicroseconds == {0, 1, 500000}

InstantZones ==
    {None}
    \cup {[offset |-> o, microseconds |-> 0] :
            o \in {0, 3600, 0 - 19800, 1, 86399, 0 - 86399}}
    \cup {[offset |-> 0, microseconds |-> 0 - 1],
          [offset |-> 60, microseconds |-> 500000]}

Instants ==
    {[year |-> d[1], month |-> d[2], day |-> d[3],
      hour |-> t[1], minute |-> t[2], second |-> t[3],
      microsecond |-> us, tzinfo |-> tz] :
        d \in InstantDates, t \in InstantTimes,
        us \in InstantMicroseconds, tz \in InstantZones}

\* the `default` argument of to_date_str: left to the parameter's default,
\* or given
DateDefaultArgs ==
    {[given |-> FALSE, text |-> <<>>], [given |-> TRUE, text |-> <<"X">>]}

P30DT == <<"P", "3", "0", "D", "T">>

\* the arguments given to the relativedelta constructor
ArgValues == {0 - MaxNegative} \cup (0..MaxArg) \cup {CarryNumeral}

\* the relativedelta values a caller can hold
Offsets ==
    {relativedelta(a[1], a[2], a[3], a[4], a[5], a[6]) : a \in [1..6 -> ArgValues]}

\* the `default` argument: given, or left to the parameter's default
DefaultArgs ==
    {[given |-> FALSE, text |-> PT0S]}
    \cup {[given |-> TRUE, text |-> d] : d \in {<<>>, <<"X">>}}

(***************************************************************************)
(* The wrapper classes over the Task Scheduler service.  An object of the  *)
(* service is a record of its identity and its Type; a member of an Enum   *)
(* is the record of its enumeration and its value, so that members of two  *)
(* enumerations, and a member and its bare value, are not equal; a class   *)
(* is the record of its name; a wrapper is the record of its class, the    *)
(* object it holds in _obj, and what functools.cached_property has stored  *)
(* in it.                                                                  *)
(***************************************************************************)
com_error == [raised |-> "com_error"]

IndexError == [raised |-> "IndexError"]

RuntimeError == [raised |-> "RuntimeError"]

ActionTypeValues == {0, 5, 6, 7}

\* ActionType(value): the member of that value, or ValueError
ActionType(value) ==
    IF value \in ActionTypeValues
    THEN [enum |-> "ActionType", value |-> value] ELSE ValueError

EXEC == [enum |-> "ActionType", value |-> 0]

COM_HANDLER == [enum |-> "ActionType", value |-> 5]

SEND_EMAIL == [enum |-> "ActionType", value |-> 6]

SHOW_MESSAGE == [enum |-> "ActionType", value |-> 7]

TriggerTypeValues == (0..9) \cup {11, 12}

\* TriggerType(value): the member of that value, or ValueError
TriggerType(value) ==
    IF value \in TriggerTypeValues
    THEN [enum |-> "TriggerType", value |-> value] ELSE ValueError

EVENT == [enum |-> "TriggerType", value |-> 0]

TIME == [enum |-> "TriggerType", value |-> 1]

DAILY == [enum |-> "TriggerType", value |-> 2]

WEEKLY == [enum |-> "TriggerType", value |-> 3]

MONTHLY == [enum |-> "TriggerType", value |-> 4]

MONTHLY_DOW == [enum |-> "TriggerType", value |-> 5]

IDLE == [enum |-> "TriggerType", value |-> 6]

REGISTRATION == [enum |-> "TriggerType", value |-> 7]

BOOT == [enum |-> "TriggerType", value |-> 8]

LOGON == [enum |-> "TriggerType", value |-> 9]

SESSION_STATE_CHANGE == [enum |-> "TriggerType", value |-> 11]

CUSTOM_TRIGGER == [enum |-> "TriggerType", value |-> 12]

ExecAction == [class |-> "ExecAction"]

ComHandlerAction == [class |-> "ComHandlerAction"]

EmailAction == [class |-> "EmailAction"]

ShowMessageAction == [class |-> "ShowMessageAction"]

EventTrigger == [class |-> "EventTrigger"]

TimeTrigger == [class |-> "TimeTrigger"]

DailyTrigger == [class |-> "DailyTrigger"]

WeeklyTrigger == [class |-> "WeeklyTrigger"]

MonthlyTrigger == [class |-> "MonthlyTrigger"]

MonthlyDOWTrigger == [class |-> "MonthlyDOWTrigger"]

IdleTrigger == [class |-> "IdleTrigger"]

RegistrationTrigger == [class |-> "RegistrationTrigger"]

BootTrigger == [class |-> "BootTrigger"]

LogonTrigger == [class |-> "LogonTrigger"]

SessionStateChangeTrigger == [class |-> "SessionStateChangeTrigger"]

TaskFolder == [class |-> "TaskFolder"]

RegisteredTask == [class |-> "RegisteredTask"]

TaskNamedValuePair == [class |-> "TaskNamedValuePair"]

RunningTask == [class |-> "RunningTask"]

\* the classes a class is derived from, itself included
Bases(cls) ==
    {cls}
    \cup (IF cls \in {ExecAction, ComHandlerAction, EmailAction, ShowMessageAction}
          THEN {[class |-> "Action"]} ELSE {})
    \cup (IF cls \in {DailyTrigger, WeeklyTrigger, MonthlyTrigger, MonthlyDOWTrigger}
          THEN {TimeTrigger} ELSE {})
    \cup (IF cls \in {EventTrigger, TimeTrigger, DailyTrigger, WeeklyTrigger,
                      MonthlyTrigger, MonthlyDOWTrigger, IdleTrigger,
                      RegistrationTrigger, BootTrigger, LogonTrigger,
                      SessionStateChangeTrigger}
          THEN {[class |-> "Trigger"]} ELSE {})

isinstance(wrapper, cls) == cls \in Bases(wrapper.class)

\* WrapperClass.__init__: cls(obj); nothing is cached yet
WrapperClass(cls, obj) == [class |-> cls, obj |-> obj, cached_type |-> None]

\* get_action_class that answers an unlisted type with the first class
get_action_class_default(type) ==
    IF type = EXEC THEN ExecAction
    ELSE IF type = COM_HANDLER THEN ComHandlerAction
    ELSE IF type = SEND_EMAIL THEN EmailAction
    ELSE IF type = SHOW_MESSAGE THEN ShowMessageAction
    ELSE ExecAction

\* get_action_class with the classes of two types exchanged
get_action_class_exchanged(type) ==
    IF type = EXEC THEN ExecAction
    ELSE IF type = COM_HANDLER THEN EmailAction
    ELSE IF type = SEND_EMAIL THEN ComHandlerAction
    ELSE IF type = SHOW_MESSAGE THEN ShowMessageAction
    ELSE RuntimeError

get_action_class(type) ==
    IF type = EXEC THEN ExecAction
    ELSE IF type = COM_HANDLER THEN ComHandlerAction
    ELSE IF type = SEND_EMAIL THEN EmailAction
    ELSE IF type = SHOW_MESSAGE THEN ShowMessageAction
    ELSE RuntimeError

get_trigger_class(type) ==
    IF type = EVENT THEN EventTrigger
    ELSE IF type = TIME THEN TimeTrigger
    ELSE IF type = DAILY THEN DailyTrigger
    ELSE IF type = WEEKLY THEN WeeklyTrigger
    ELSE IF type = MONTHLY THEN MonthlyTrigger
    ELSE IF type = MONTHLY_DOW THEN MonthlyDOWTrigger
    ELSE IF type = IDLE THEN IdleTrigger
    ELSE IF type = REGISTRATION THEN RegistrationTrigger
    ELSE IF type = BOOT THEN BootTrigger
    ELSE IF type = LOGON THEN LogonTrigger
    ELSE IF type = SESSION_STATE_CHANGE THEN SessionStateChangeTrigger
    ELSE RuntimeError

(***************************************************************************)
(* The collection object of the service behind a collection wrapper: its   *)
(* items in order, numbered from 1, and the number of objects it has       *)
(* created.  Item(index) outside 1..Count fails with com_error; Create     *)
(* appends a new object of the given Type; Remove(index) takes the item at *)
(* that position out; Clear takes all out.                                 *)
(***************************************************************************)
Service_Item(svc, index) ==
    IF index \in 1..Len(svc.items) THEN svc.items[index] ELSE com_error

Service_Create(svc, value) ==
    LET obj == [id |-> svc.created + 1, Type |-> value, Id |-> <<>>]
    IN  [service |-> [svc EXCEPT !.items = Append(svc.items, obj),
                                 !.created = svc.created + 1],
         obj |-> obj]

Service_Remove(svc, index) ==
    [svc EXCEPT !.items = SubSeq(svc.items, 1, index - 1)
                          \o SubSeq(svc.items, index + 1, Len(svc.items))]

Service_Clear(svc) == [svc EXCEPT !.items = <<>>]

\* a write to the Id of an object, seen wherever the object is listed
Service_SetId(svc, obj, value) ==
    [svc EXCEPT !.items = [k \in 1..Len(svc.items) |->
                             IF svc.items[k].id = obj.id
                             THEN [svc.items[k] EXCEPT !.Id = value]
                             ELSE svc.items[k]]]

\* what a call hands back: a return value, or the exception it raised
Returned(value) == [ret |-> value, raised |-> None]

Raised(error) == [ret |-> None, raised |-> error]

\* the conversion and dispatch made on an action object of the service
WrapAction(action_obj) ==
    LET type == ActionType(action_obj.Type)
    IN  IF type = ValueError THEN Raised(ValueError)
        ELSE LET action_class == get_action_class(type)
             IN  IF action_class = RuntimeError THEN Raised(RuntimeError)
                 ELSE Returned(WrapperClass(action_class, action_obj))

\* the conversion and dispatch made on a trigger object of the service
WrapTrigger(trigger_obj) ==
    LET type == TriggerType(trigger_obj.Type)
    IN  IF type = ValueError THEN Raised(ValueError)
        ELSE LET trigger_class == get_trigger_class(type)
             IN  IF trigger_class = RuntimeError THEN Raised(RuntimeError)
                 ELSE Returned(WrapperClass(trigger_class, trigger_obj))

\* ActionCollection.item that lets the failure of the service through
ActionCollection_item_leaking(svc, index) ==
    LET action_obj == Service_Item(svc, index)
    IN  IF action_obj = com_error THEN Raised(com_error)
        ELSE WrapAction(action_obj)

\* ActionCollection.item that counts positions from 0
ActionCollection_item_zero_based(svc, index) ==
    LET action_obj == Service_Item(svc, index + 1)
    IN  IF action_obj = com_error THEN Raised(IndexError)
        ELSE WrapAction(action_obj)

ActionCollection_item(svc, index) ==
    LET action_obj == Service_Item(svc, index)
    IN  IF action_obj = com_error THEN Raised(IndexError)
        ELSE WrapAction(action_obj)

TriggerCollection_item(svc, index) ==
    LET trigger_obj == Service_Item(svc, index)
    IN  IF trigger_obj = com_error THEN Raised(IndexError)
        ELSE WrapTrigger(trigger_obj)

TaskFolderCollection_item(svc, index) ==
    LET obj == Service_Item(svc, index)
    IN  IF obj = com_error THEN Raised(IndexError)
        ELSE Returned(WrapperClass(TaskFolder, obj))

RegisteredTaskCollection_item(svc, index) ==
    LET obj == Service_Item(svc, index)
    IN  IF obj = com_error THEN Raised(IndexError)
        ELSE Returned(WrapperClass(RegisteredTask, obj))

TaskNamedValueCollection_item(svc, index) ==
    LET obj == Service_Item(svc, index)
    IN  IF obj = com_error THEN Raised(IndexError)
        ELSE Returned(WrapperClass(TaskNamedValuePair, obj))

\* RunningTaskCollection.item: no try around Item
RunningTaskCollection_item(svc, index) ==
    LET obj == Service_Item(svc, index)
    IN  IF obj = com_error THEN Raised(com_error)
        ELSE Returned(WrapperClass(RunningTask, obj))

\* the mapper of a collection's __iter__, applied to one object
Mapper(collection, obj) ==
    CASE collection = "ActionCollection"  -> WrapAction(obj)
      [] collection = "TriggerCollection" -> WrapTrigger(obj)
      [] collection = "TaskFolderCollection" ->
            Returned(WrapperClass(TaskFolder, obj))
      [] collection = "RegisteredTaskCollection" ->
            Returned(WrapperClass(RegisteredTask, obj))
      [] OTHER -> Returned(WrapperClass(TaskNamedValuePair, obj))

\* iter(map(mapper, self._obj)) run to its end: the wrappers yielded, and
\* the exception that stopped the iteration, if one did
RECURSIVE Iteration(_, _, _)
Iteration(collection, items, k) ==
    IF k > Len(items) THEN [yielded |-> <<>>, raised |-> None]
    ELSE
      LET first == Mapper(collection, items[k])
      IN  IF first.raised # None
          THEN [yielded |-> <<>>, raised |-> first.raised]
          ELSE LET rest == Iteration(collection, items, k + 1)
               IN  [yielded |-> <<first.ret>> \o rest.yielded,
                    raised |-> rest.raised]

ActionCollection_create(svc, type) ==
    LET action_class == get_action_class(type)
    IN  IF action_class = RuntimeError
        THEN [service |-> svc, call |-> Raised(RuntimeError)]
        ELSE LET made == Service_Create(svc, type.value)
             IN  [service |-> made.service,
                  call |-> Returned(WrapperClass(action_class, made.obj))]

TriggerCollection_create(svc, type) ==
    LET trigger_class == get_trigger_class(type)
    IN  IF trigger_class = RuntimeError
        THEN [service |-> svc, call |-> Raised(RuntimeError)]
        ELSE LET made == Service_Create(svc, type.value)
             IN  [service |-> made.service,
                  call |-> Returned(WrapperClass(trigger_class, made.obj))]

\* Action.type, a functools.cached_property: the first read converts the
\* Type of the object and stores the member in the wrapper, later reads
\* return what is stored
Action_type(wrapper) ==
    IF wrapper.cached_type # None
    THEN [wrapper |-> wrapper, call |-> Returned(wrapper.cached_type)]
    ELSE LET type == ActionType(wrapper.obj.Type)
         IN  IF type = ValueError
             THEN [wrapper |-> wrapper, call |-> Raised(ValueError)]
             ELSE [wrapper |-> [wrapper EXCEPT !.cached_type = type],
                   call |-> Returned(type)]

\* Trigger.type, a plain property
Trigger_type(wrapper) ==
    LET type == TriggerType(wrapper.obj.Type)
    IN  [wrapper |-> wrapper,
         call |-> IF type = ValueError THEN Raised(ValueError) ELSE Returned(type)]

\* Action.id: self._obj.Id
Action_id(wrapper) == [wrapper |-> wrapper, call |-> Returned(wrapper.obj.Id)]

\* an id setter that writes the Type of the object as well
Action_id_set_and_type(wrapper, value) ==
    [wrapper |-> [wrapper EXCEPT !.obj.Id = value,
                                 !.obj.Type = SHOW_MESSAGE.value],
     call |-> Returned(None)]

\* Action.id = value: self._obj.Id = value
Action_id_set(wrapper, value) ==
    [wrapper |-> [wrapper EXCEPT !.obj.Id = value], call |-> Returned(None)]

(***************************************************************************)
(* State: one input and the chain of codec calls made on it, each call     *)
(* taking the previous call's return value as its argument.                *)
(***************************************************************************)
VARIABLES
    input,     \* the value the first call is made on
    calls,     \* the calls made so far, oldest first
    service,   \* the object of the service behind the wrapper in use
    held,      \* the wrapper the caller keeps
    outcome,   \* the last call made on a wrapper and what it handed back
    remaining  \* the elements the caller counts on, in creation order

vars == <<input, calls, service, held, outcome, remaining>>

codec == <<input, calls>>

wrappers == <<service, held, outcome, remaining>>

NoCall == [op |-> "none"]

Last(seq) == seq[Len(seq)]

InitString ==
    /\ \/ \E w \in Writings :
            input = [kind |-> "string", string |-> Written(w), written |-> w]
       \/ \E s \in RawStrings \cup {NotADuration} :
            input = [kind |-> "string", string |-> s, written |-> None]
    /\ calls = <<>>

InitOffset ==
    /\ \E o \in Offsets \cup {None} : input = [kind |-> "rd", rd |-> o]
    /\ calls = <<>>

InitDateString ==
    /\ \/ \E w \in DateWritings :
            input = [kind |-> "date_string", string |-> WrittenDate(w),
                     written |-> w]
       \/ \E s \in RawStrings \cup {NotADate, P30DT} :
            input = [kind |-> "date_string", string |-> s, written |-> None]
    /\ calls = <<>>

InitInstant ==
    /\ \E dt \in Instants \cup {None} : input = [kind |-> "dt", dt |-> dt]
    /\ calls = <<>>

Init ==
    /\ InitString \/ InitOffset \/ InitDateString \/ InitInstant
    /\ service = None
    /\ held = None
    /\ outcome = NoCall
    /\ remaining = <<>>

\* rd = from_duration_str(string)
FromDurationStr ==
    /\ Len(calls) < MaxCalls
    /\ \E string \in
            IF calls = <<>>
            THEN (IF input.kind = "string" THEN {input.string} ELSE {})
            ELSE (IF Last(calls).fn = "to_duration_str" THEN {Last(calls).string} ELSE {}) :
          calls' = Append(calls, [fn |-> "from_duration_str",
                                  string |-> string,
                                  default |-> [given |-> FALSE, text |-> PT0S],
                                  rd |-> from_duration_str(string)])
    /\ UNCHANGED <<input, wrappers>>

\* string = to_duration_str(rd) or to_duration_str(rd, default)
ToDurationStr ==
    /\ Len(calls) < MaxCalls
    /\ \E rd \in
            IF calls = <<>>
            THEN (IF input.kind = "rd" THEN {input.rd} ELSE {})
            ELSE (IF Last(calls).fn = "from_duration_str" THEN {Last(calls).rd} ELSE {}) :
          \E default \in DefaultArgs :
              calls' = Append(calls, [fn |-> "to_duration_str",
                                      rd |-> rd,
                                      default |-> default,
                                      string |-> to_duration_str(rd, default.text)])
    /\ UNCHANGED <<input, wrappers>>

\* dt = from_date_str(string)
FromDateStr ==
    /\ Len(calls) < MaxCalls
    /\ \E string \in
            IF calls = <<>>
            THEN (IF input.kind = "date_string" THEN {input.string} ELSE {})
            ELSE (IF Last(calls).fn = "to_date_str" THEN {Last(calls).string} ELSE {}) :
          calls' = Append(calls, [fn |-> "from_date_str",
                                  string |-> string,
                                  dt |-> from_date_str(string)])
    /\ UNCHANGED <<input, wrappers>>

\* string = to_date_str(dt) or to_date_str(dt, default); a call that raised
\* has no return value to pass on
ToDateStr ==
    /\ Len(calls) < MaxCalls
    /\ \E dt \in
            IF calls = <<>>
            THEN (IF input.kind = "dt" THEN {input.dt} ELSE {})
            ELSE (IF Last(calls).fn = "from_date_str"
                  THEN {Last(calls).dt} \ {ValueError} ELSE {}) :
          \E default \in DateDefaultArgs :
              calls' = Append(calls, [fn |-> "to_date_str",
                                      dt |-> dt,
                                      default |-> default,
                                      string |-> to_date_str(dt, default.text)])
    /\ UNCHANGED <<input, wrappers>>

Next == FromDurationStr \/ ToDurationStr \/ FromDateStr \/ ToDateStr

Spec == Init /\ [][Next]_vars

TypeOK ==
    /\ input.kind \in {"string", "rd", "date_string", "dt"}
    /\ Len(calls) <= MaxCalls

(***************************************************************************)
(* A collection wrapper over a collection of the service, and the calls a  *)
(* caller makes on it.                                                     *)
(***************************************************************************)
Collections ==
    {"ActionCollection", "TriggerCollection", "TaskFolderCollection",
     "RegisteredTaskCollection", "TaskNamedValueCollection"}

Dispatching == {"ActionCollection", "TriggerCollection"}

\* the Type values the service may report for the objects it lists: those of
\* the enumeration and one the enumeration does not have
ListedTypes(collection) ==
    CASE collection = "ActionCollection"  -> ActionTypeValues \cup {1}
      [] collection = "TriggerCollection" -> TriggerTypeValues \cup {10}
      [] OTHER -> {0}

\* the items a collection of the service lists when it is first wrapped: an
\* action or trigger collection none or one, of any Type, the others any
\* number
ListedItems(collection) ==
    LET lengths == IF collection \in Dispatching
                   THEN {0, 1} ELSE 0..MaxItems
    IN  UNION {{[k \in 1..n |-> [id |-> k, Type |-> types[k], Id |-> <<>>]] :
                    types \in [1..n -> ListedTypes(collection)]} :
               n \in lengths}

\* the members of the enumeration a collection is created with
Members(collection) ==
    IF collection = "ActionCollection"
    THEN {ActionType(v) : v \in ActionTypeValues}
    ELSE {TriggerType(v) : v \in TriggerTypeValues}

\* the members an empty collection is extended with, and those a collection
\* that has items is extended with
Extensions(svc) ==
    IF svc.items = <<>> THEN Members(svc.collection)
    ELSE IF svc.collection = "ActionCollection" THEN {EXEC, SHOW_MESSAGE}
    ELSE {EVENT, DAILY}

\* the arguments get_action_class and get_trigger_class are called with: the
\* members of their enumeration, members of the other one, bare integers
ClassArguments(collection) ==
    Members(collection)
    \cup {EXEC, EVENT, CUSTOM_TRIGGER}
    \cup {[enum |-> "int", value |-> v] : v \in {0, 10}}

\* the objects a collection of the service creates at most
MaxObjects == MaxItems + 1

Indices == 0..(MaxItems + 1)

\* the collection of running tasks is wrapped as well
InitCollection ==
    /\ \E collection \in Collections \cup {"RunningTaskCollection"} :
         \E items \in ListedItems(collection) :
            /\ service = [collection |-> collection, items |-> items,
                          created |-> Len(items)]
            /\ remaining = [k \in 1..Len(items) |->
                              [id |-> items[k].id, Type |-> items[k].Type]]
    /\ held = None
    /\ outcome = NoCall
    /\ input = None
    /\ calls = <<>>

item(svc, index) ==
    CASE svc.collection = "ActionCollection" -> ActionCollection_item(svc, index)
      [] svc.collection = "TriggerCollection" -> TriggerCollection_item(svc, index)
      [] svc.collection = "TaskFolderCollection" ->
            TaskFolderCollection_item(svc, index)
      [] svc.collection = "RegisteredTaskCollection" ->
            RegisteredTaskCollection_item(svc, index)
      [] OTHER -> TaskNamedValueCollection_item(svc, index)

\* collection.item(index)
Item ==
    /\ service.collection \in Collections
    /\ \E index \in Indices :
         LET call == item(service, index)
         IN  outcome' = [op |-> "item", arg |-> index,
                         ret |-> call.ret, raised |-> call.raised]
    /\ UNCHANGED <<service, held, remaining, codec>>

\* collection[index]: __getitem__ returns self.item(index)
GetItem ==
    /\ service.collection \in Collections
    /\ \E index \in Indices :
         LET call == item(service, index)
         IN  outcome' = [op |-> "__getitem__", arg |-> index,
                         ret |-> call.ret, raised |-> call.raised]
    /\ UNCHANGED <<service, held, remaining, codec>>

\* list(collection): __iter__ and the iteration to its end
Iterate ==
    /\ service.collection \in Collections
    /\ LET run == Iteration(service.collection, service.items, 1)
       IN  outcome' = [op |-> "__iter__", yielded |-> run.yielded,
                       raised |-> run.raised]
    /\ UNCHANGED <<service, held, remaining, codec>>

\* collection.count: self._obj.Count
Count ==
    /\ service.collection \in Collections
    /\ outcome' = [op |-> "count", ret |-> Len(service.items), raised |-> None]
    /\ UNCHANGED <<service, held, remaining, codec>>

\* len(collection): __len__ returns self.count
DunderLen ==
    /\ service.collection \in Collections
    /\ outcome' = [op |-> "__len__", ret |-> Len(service.items), raised |-> None]
    /\ UNCHANGED <<service, held, remaining, codec>>

\* the element a caller counts on after a create that returned
Created(call, type) == [id |-> call.ret.obj.id, Type |-> type.value]

\* collection.create(type)
Create ==
    /\ service.collection \in Dispatching
    /\ Len(service.items) < MaxItems
    /\ service.created < MaxObjects
    /\ \E type \in Extensions(service) :
         LET made == IF service.collection = "ActionCollection"
                     THEN ActionCollection_create(service, type)
                     ELSE TriggerCollection_create(service, type)
         IN  /\ service' = made.service
             /\ outcome' = [op |-> "create", arg |-> type,
                            ret |-> made.call.ret, raised |-> made.call.raised]
             /\ remaining' = IF made.call.raised = None
                             THEN Append(remaining, Created(made.call, type))
                             ELSE remaining
    /\ UNCHANGED <<held, codec>>

\* collection.remove(index): self._obj.Remove(index), at a position that
\* exists
Remove ==
    /\ service.collection \in Dispatching
    /\ \E index \in 1..Len(service.items) :
         /\ service' = Service_Remove(service, index)
         /\ outcome' = [op |-> "remove", arg |-> index,
                        ret |-> None, raised |-> None]
         /\ remaining' = SubSeq(remaining, 1, index - 1)
                         \o SubSeq(remaining, index + 1, Len(remaining))
    /\ UNCHANGED <<held, codec>>

\* collection.clear(): self._obj.Clear()
Clear ==
    /\ service.collection \in Dispatching
    /\ service' = Service_Clear(service)
    /\ outcome' = [op |-> "clear", ret |-> None, raised |-> None]
    /\ remaining' = <<>>
    /\ UNCHANGED <<held, codec>>

\* ActionCollection.get_action_class(type), called on its own
GetActionClass ==
    /\ service.collection = "ActionCollection"
    /\ \E type \in ClassArguments(service.collection) :
         LET cls == get_action_class(type)
         IN  outcome' = [op |-> "get_action_class", arg |-> type,
                         ret |-> IF cls = RuntimeError THEN None ELSE cls,
                         raised |-> IF cls = RuntimeError THEN cls ELSE None]
    /\ UNCHANGED <<service, held, remaining, codec>>

\* TriggerCollection.get_trigger_class(type), called on its own
GetTriggerClass ==
    /\ service.collection = "TriggerCollection"
    /\ \E type \in ClassArguments(service.collection) :
         LET cls == get_trigger_class(type)
         IN  outcome' = [op |-> "get_trigger_class", arg |-> type,
                         ret |-> IF cls = RuntimeError THEN None ELSE cls,
                         raised |-> IF cls = RuntimeError THEN cls ELSE None]
    /\ UNCHANGED <<service, held, remaining, codec>>

\* the wrappers the last call handed to the caller
Handed ==
    IF outcome.op \in {"create", "item", "__getitem__"}
    THEN (IF outcome.raised = None THEN {outcome.ret} ELSE {})
    ELSE IF outcome.op = "__iter__"
    THEN {outcome.yielded[k] : k \in 1..Len(outcome.yielded)}
    ELSE {}

\* the caller keeps an action wrapper it was handed; `kind` is the type it
\* was created with or the Type its object had when it was wrapped
Hold ==
    /\ service.collection = "ActionCollection"
    /\ held = None
    /\ \E wrapper \in Handed :
         held' = [wrapper |-> wrapper,
                  kind |-> IF outcome.op = "create" THEN outcome.arg
                           ELSE ActionType(wrapper.obj.Type)]
    /\ UNCHANGED <<service, outcome, remaining, codec>>

\* wrapper.type, read on a wrapper the last call handed over
ReadType ==
    /\ service.collection \in Dispatching
    /\ \E wrapper \in Handed :
         LET read == IF service.collection = "ActionCollection"
                     THEN Action_type(wrapper) ELSE Trigger_type(wrapper)
         IN  outcome' = [op |-> "type", of |-> outcome, wrapper |-> read.wrapper,
                         ret |-> read.call.ret, raised |-> read.call.raised]
    /\ UNCHANGED <<service, held, remaining, codec>>

\* action.type, read on the wrapper the caller keeps
ReadHeldType ==
    /\ held # None
    /\ LET read == Action_type(held.wrapper)
       IN  /\ held' = [held EXCEPT !.wrapper = read.wrapper]
           /\ outcome' = [op |-> "held.type", ret |-> read.call.ret,
                          raised |-> read.call.raised]
    /\ UNCHANGED <<service, remaining, codec>>

\* action.id = value, on the wrapper the caller keeps
WriteHeldId ==
    /\ held # None
    /\ \E value \in {<<"a">>} :
         LET written == Action_id_set(held.wrapper, value)
         IN  /\ held' = [held EXCEPT !.wrapper = written.wrapper]
             /\ service' = Service_SetId(service, held.wrapper.obj, value)
             /\ outcome' = [op |-> "held.id=", arg |-> value,
                            ret |-> None, raised |-> None]
    /\ UNCHANGED <<remaining, codec>>

\* action.id, read on the wrapper the caller keeps
ReadHeldId ==
    /\ held # None
    /\ LET read == Action_id(held.wrapper)
       IN  outcome' = [op |-> "held.id", ret |-> read.call.ret, raised |-> None]
    /\ UNCHANGED <<service, held, remaining, codec>>

\* running.item(index)
RunningItem ==
    /\ service.collection = "RunningTaskCollection"
    /\ \E index \in Indices :
         LET call == RunningTaskCollection_item(service, index)
         IN  outcome' = [op |-> "item", arg |-> index,
                         ret |-> call.ret, raised |-> call.raised]
    /\ UNCHANGED <<service, held, remaining, codec>>

\* running[index]: __getitem__ returns self.item(index)
RunningGetItem ==
    /\ service.collection = "RunningTaskCollection"
    /\ \E index \in Indices :
         LET call == RunningTaskCollection_item(service, index)
         IN  outcome' = [op |-> "__getitem__", arg |-> index,
                         ret |-> call.ret, raised |-> call.raised]
    /\ UNCHANGED <<service, held, remaining, codec>>

\* running.count and len(running)
RunningCount ==
    /\ service.collection = "RunningTaskCollection"
    /\ \E op \in {"count", "__len__"} :
         outcome' = [op |-> op, ret |-> Len(service.items), raised |-> None]
    /\ UNCHANGED <<service, held, remaining, codec>>

CollectionNext ==
    \/ Item \/ GetItem \/ Iterate \/ Count \/ DunderLen
    \/ RunningItem \/ RunningGetItem \/ RunningCount
    \/ Create \/ Remove \/ Clear
    \/ GetActionClass \/ GetTriggerClass
    \/ Hold \/ ReadType \/ ReadHeldType \/ WriteHeldId \/ ReadHeldId

CollectionSpec == InitCollection /\ [][CollectionNext]_vars

(***************************************************************************)
(* Sub-objects behind functools.cached_property: Trigger.repetition and    *)
(* TaskDefinition.actions, principal, registration_info, settings and      *)
(* triggers.  The service hands out a new handle at every request of the   *)
(* attribute; the wrapper built around a handle is known by that handle.   *)
(***************************************************************************)
\* the wrappers in use: two Trigger wrappers of one trigger of the service,
\* and a TaskDefinition wrapper
Owners == {"trigger", "same_trigger", "task_def"}

\* the cached properties of a wrapper, with the attribute of the service
\* each one requests and the class it builds
CachedProperties(owner) ==
    IF owner = "task_def"
    THEN {[name |-> "actions", attribute |-> "Actions",
           class |-> [class |-> "ActionCollection"]],
          [name |-> "principal", attribute |-> "Principal",
           class |-> [class |-> "Principal"]],
          [name |-> "registration_info", attribute |-> "RegistrationInfo",
           class |-> [class |-> "RegistrationInfo"]],
          [name |-> "settings", attribute |-> "Settings",
           class |-> [class |-> "TaskSettings"]],
          [name |-> "triggers", attribute |-> "Triggers",
           class |-> [class |-> "TriggerCollection"]]}
    ELSE {[name |-> "repetition", attribute |-> "Repetition",
           class |-> [class |-> "RepetitionPattern"]]}

CachedNames ==
    {"actions", "principal", "registration_info", "settings", "triggers",
     "repetition"}

\* the object of the service a wrapper holds in _obj
ObjectOf(owner) == IF owner = "task_def" THEN "definition" ELSE "trigger"

\* self._obj.<attribute>: one more request, answered with a new handle
Service_Get(svc, owner, attribute) ==
    LET n == svc.requests[owner][attribute] + 1
    IN  [service |-> [svc EXCEPT !.requests[owner][attribute] = n],
         handle |-> [of |-> ObjectOf(owner), through |-> owner,
                     attribute |-> attribute, request |-> n]]

\* a plain property in place of the cached one: the getter runs at every
\* access
cached_property_unstored(svc, wrapper, owner, property) ==
    LET got == Service_Get(svc, owner, property.attribute)
    IN  [service |-> got.service,
         wrapper |-> wrapper,
         ret |-> WrapperClass(property.class, got.handle)]

\* functools.cached_property.__get__: the value stored in the instance under
\* the name of the property, or else the getter's value, which is stored
cached_property(svc, wrapper, owner, property) ==
    IF wrapper.dict[property.name] # None
    THEN [service |-> svc, wrapper |-> wrapper,
          ret |-> wrapper.dict[property.name]]
    ELSE LET got == Service_Get(svc, owner, property.attribute)
             val == WrapperClass(property.class, got.handle)
         IN  [service |-> got.service,
              wrapper |-> [wrapper EXCEPT !.dict[property.name] = val],
              ret |-> val]

Attributes ==
    {"Actions", "Principal", "RegistrationInfo", "Settings", "Triggers",
     "Repetition"}

\* the longest run of accesses
MaxAccesses == 4

InitCache ==
    /\ service = [requests |-> [o \in Owners |-> [a \in Attributes |-> 0]],
                  Id |-> <<>>, Data |-> <<>>]
    /\ held = [o \in Owners |-> [dict |-> [n \in CachedNames |-> None]]]
    /\ calls = <<>>
    /\ outcome = NoCall
    /\ remaining = <<>>
    /\ input = None

\* wrapper.<name> for a cached property
ReadCached ==
    /\ Len(calls) < MaxAccesses
    /\ \E owner \in Owners :
         \E property \in CachedProperties(owner) :
            LET read == cached_property(service, held[owner], owner, property)
            IN  /\ service' = read.service
                /\ held' = [held EXCEPT ![owner] = read.wrapper]
                /\ calls' = Append(calls, [fn |-> property.name, owner |-> owner,
                                           ret |-> read.ret])
    /\ UNCHANGED <<outcome, remaining, input>>

\* trigger.id = value: self._obj.Id = value
WriteTriggerId ==
    /\ Len(calls) < MaxAccesses
    /\ \E owner \in {"trigger", "same_trigger"} :
         /\ service' = [service EXCEPT !.Id = <<"a">>]
         /\ calls' = Append(calls, [fn |-> "id=", owner |-> owner, ret |-> None])
    /\ UNCHANGED <<held, outcome, remaining, input>>

\* trigger.id: self._obj.Id
ReadTriggerId ==
    /\ Len(calls) < MaxAccesses
    /\ \E owner \in {"trigger", "same_trigger"} :
         calls' = Append(calls, [fn |-> "id", owner |-> owner,
                                 ret |-> service.Id])
    /\ UNCHANGED <<service, held, outcome, remaining, input>>

\* task_def.data = value: self._obj.Data = value
WriteData ==
    /\ Len(calls) < MaxAccesses
    /\ service' = [service EXCEPT !.Data = <<"a">>]
    /\ calls' = Append(calls, [fn |-> "data=", owner |-> "task_def",
                               ret |-> None])
    /\ UNCHANGED <<held, outcome, remaining, input>>

CacheNext == ReadCached \/ WriteTriggerId \/ ReadTriggerId \/ WriteData

CacheSpec == InitCache /\ [][CacheNext]_vars

(***************************************************************************)
(* The properties the service keeps as a duration string, each with the    *)
(* attribute of the service it reads and writes.                           *)
(***************************************************************************)
DurationCoded ==
    {"RepetitionPattern.duration", "RepetitionPattern.interval",
     "Trigger.execution_time_limit", "EventTrigger.delay",
     "TimeTrigger.random_delay", "RegistrationTrigger.delay",
     "BootTrigger.delay", "LogonTrigger.delay",
     "SessionStateChangeTrigger.delay", "TaskSettings.execution_time_limit",
     "TaskSettings.restart_interval"}

DateCoded == {"TaskSettings.delete_expired_task_after"}

DurationBacked == DurationCoded \cup DateCoded

AttributeError == [raised |-> "AttributeError"]

\* a datetime has the method isoformat, a relativedelta has not
HasIsoformat(value) == "year" \in DOMAIN value

\* the string a setter assigns to the attribute of the service, or the
\* exception it raises before assigning
Setter(property, value) ==
    IF property \in DurationCoded THEN to_duration_str(value, PT0S)
    ELSE IF value # None /\ ~HasIsoformat(value) THEN AttributeError
    ELSE to_date_str(value, <<>>)

\* what a getter returns for the string the attribute holds
Getter(property, string) ==
    IF property \in DurationCoded THEN from_duration_str(string)
    ELSE from_date_str(string)

\* the offsets written to a property: one component set, all set, none
\* set, and one below zero
WrittenOffsets ==
    {relativedelta(a[1], a[2], a[3], a[4], a[5], a[6]) :
        a \in {[i \in 1..6 |-> IF i = k THEN MaxArg ELSE 0] : k \in 0..6}}
    \cup {relativedelta(MaxArg, MaxArg, MaxArg, MaxArg, MaxArg, MaxArg),
          relativedelta(0, 0, 0 - MaxNegative, 0, 0, 0)}

InitProperty ==
    /\ \E property \in DurationBacked :
         \E string \in {PT0S, P30DT} :
            service = [property |-> property, string |-> string]
    /\ calls = <<>>
    /\ held = None
    /\ outcome = NoCall
    /\ remaining = <<>>
    /\ input = None

\* wrapper.<property> = value; the service keeps the string as assigned
WriteProperty ==
    /\ Len(calls) < MaxCalls
    /\ \E value \in WrittenOffsets \cup {None} :
         LET string == Setter(service.property, value)
         IN  IF string = AttributeError
             THEN /\ calls' = Append(calls, [fn |-> "set", value |-> value,
                                             raised |-> AttributeError])
                  /\ UNCHANGED service
             ELSE /\ calls' = Append(calls, [fn |-> "set", value |-> value,
                                             raised |-> None])
                  /\ service' = [service EXCEPT !.string = string]
    /\ UNCHANGED <<held, outcome, remaining, input>>

\* wrapper.<property>
ReadProperty ==
    /\ Len(calls) < MaxCalls
    /\ calls' = Append(calls, [fn |-> "get",
                               ret |-> Getter(service.property, service.string)])
    /\ UNCHANGED <<service, held, outcome, remaining, input>>

PropertyNext == WriteProperty \/ ReadProperty

PropertySpec == InitProperty /\ [][PropertyNext]_vars

(***************************************************************************)
(* TaskService: the class attribute _instance, the instances allocated,    *)
(* and the Schedule.Service objects win32com.client.Dispatch hands out.    *)
(* An instance is known by its position in objects, a Schedule.Service     *)
(* object by its number.                                                   *)
(***************************************************************************)
TaskFolderNotFound == [raised |-> "TaskFolderNotFound"]

TaskFolderExists == [raised |-> "TaskFolderExists"]

TaskNotFound == [raised |-> "TaskNotFound"]

\* win32com.client.Dispatch("Schedule.Service"): one more object of the
\* service, not connected
Dispatch(svc) ==
    [service |-> [svc EXCEPT !.dispatched = @ + 1],
     obj |-> [dispatched |-> svc.dispatched + 1]]

\* __new__ without the test of _instance: an instance at every call
TaskService_new_each_time(py) ==
    [py |-> [_instance |-> [instance |-> Len(py.objects) + 1],
             objects |-> Append(py.objects, None)],
     ret |-> [instance |-> Len(py.objects) + 1]]

\* TaskService.__new__(cls)
TaskService_new(py) ==
    IF py._instance = None
    THEN [py |-> [_instance |-> [instance |-> Len(py.objects) + 1],
                  objects |-> Append(py.objects, None)],
          ret |-> [instance |-> Len(py.objects) + 1]]
    ELSE [py |-> py, ret |-> py._instance]

\* TaskService.__init__(self): WrapperClass.__init__ sets self._obj
TaskService_init(py, svc, self) ==
    LET made == Dispatch(svc)
    IN  [py |-> [py EXCEPT !.objects[self.instance] = made.obj],
         service |-> made.service]

\* TaskService(): type.__call__ runs __new__ and then, on the instance it
\* got, __init__
TaskService_call(py, svc) ==
    LET new == TaskService_new(py)
        init == TaskService_init(new.py, svc, new.ret)
    IN  [py |-> init.py, service |-> init.service, ret |-> new.ret]

\* self._obj.Connect(...)
TaskService_connect(py, svc, self) ==
    [svc EXCEPT !.connected = @ \cup {py.objects[self.instance]}]

\* self._obj.Connected
TaskService_connected(py, svc, self) == py.objects[self.instance] \in svc.connected

\* the root folder
Root == <<"\\">>

\* service.get_folder("\\"): a Schedule.Service object that is not connected
\* answers GetFolder with a com_error
TaskService_get_root(py, svc, self) ==
    IF py.objects[self.instance] \in svc.connected
    THEN Returned([class |-> TaskFolder, path |-> Root])
    ELSE Raised(TaskFolderNotFound)

\* the longest run of calls on TaskService
MaxServiceCalls == 5

InitService ==
    /\ held = [_instance |-> None, objects |-> <<>>]
    /\ service = [dispatched |-> 0, connected |-> {}]
    /\ calls = <<>>
    /\ outcome = NoCall
    /\ remaining = <<>>
    /\ input = None

\* what a call leaves behind: the instance it acted on, the object that
\* instance holds and whether that object is connected
Seen(fn, py, svc, self, call) ==
    [fn |-> fn, self |-> self, obj |-> py.objects[self.instance],
     connected |-> TaskService_connected(py, svc, self),
     ret |-> call.ret, raised |-> call.raised]

\* TaskService()
Construct ==
    /\ Len(calls) < MaxServiceCalls
    /\ LET made == TaskService_call(held, service)
       IN  /\ held' = made.py
           /\ service' = made.service
           /\ calls' = Append(calls, Seen("TaskService", made.py, made.service,
                                          made.ret, Returned(made.ret)))
    /\ UNCHANGED <<outcome, remaining, input>>

\* the instances some earlier TaskService() returned
Instances == {calls[i].ret : i \in {j \in 1..Len(calls) : calls[j].fn = "TaskService"}}

\* instance.connect()
Connect ==
    /\ Len(calls) < MaxServiceCalls
    /\ \E self \in Instances :
         LET svc == TaskService_connect(held, service, self)
         IN  /\ service' = svc
             /\ calls' = Append(calls, Seen("connect", held, svc, self,
                                            Returned(None)))
    /\ UNCHANGED <<held, outcome, remaining, input>>

\* instance.connected
ReadConnected ==
    /\ Len(calls) < MaxServiceCalls
    /\ \E self \in Instances :
         calls' = Append(calls, Seen("connected", held, service, self,
                     Returned([bool |-> TaskService_connected(held, service, self)])))
    /\ UNCHANGED <<held, service, outcome, remaining, input>>

\* instance.get_folder("\\")
GetRoot ==
    /\ Len(calls) < MaxServiceCalls
    /\ \E self \in Instances :
         calls' = Append(calls, Seen("get_folder", held, service, self,
                                     TaskService_get_root(held, service, self)))
    /\ UNCHANGED <<held, service, outcome, remaining, input>>

ServiceNext == Construct \/ Connect \/ ReadConnected \/ GetRoot

ServiceSpec == InitService /\ [][ServiceNext]_vars

(***************************************************************************)
(* The folders of the service seen through the TaskFolder wrapper of the   *)
(* root folder.  The service keeps the folders below the root, each as    *)
(* the sequence of its names from the root, and the names of the tasks     *)
(* registered in the root folder.                                          *)
(***************************************************************************)
\* the names a path is made of: it is cut at every backslash, and a leading
\* backslash only says that the path starts at the root, which is where a
\* path handed to the root folder starts anyway
RECURSIVE PathNames(_, _)
PathNames(path, name) ==
    IF path = <<>> THEN (IF name = <<>> THEN <<>> ELSE <<name>>)
    ELSE IF Head(path) = "\\"
         THEN (IF name = <<>> THEN <<>> ELSE <<name>>) \o PathNames(Tail(path), <<>>)
         ELSE PathNames(Tail(path), Append(name, Head(path)))

\* the Path the service reports for a folder
RECURSIVE FolderPath(_)
FolderPath(names) ==
    IF names = <<>> THEN <<>>
    ELSE <<"\\">> \o Head(names) \o FolderPath(Tail(names))

PathOf(names) == IF names = <<>> THEN Root ELSE FolderPath(names)

\* "." and ".." cannot be used in a path
NameAllowed(name) == name # <<".">> /\ name # <<".", ".">>

PathAllowed(path) ==
    /\ path # <<>>
    /\ \A k \in 1..Len(PathNames(path, <<>>)) :
          NameAllowed(PathNames(path, <<>>)[k])

\* whether the service has the folder a path names
FolderExists(svc, path) ==
    /\ PathAllowed(path)
    /\ (PathNames(path, <<>>) = <<>> \/ PathNames(path, <<>>) \in svc.folders)

\* the folders the service has inside a folder
SubFolders(svc, names) ==
    {f \in svc.folders : Len(f) > Len(names) /\ SubSeq(f, 1, Len(names)) = names}

\* a folder together with the folders above it, below the root
Tree(names) == {SubSeq(names, 1, k) : k \in 1..Len(names)}

\* ITaskFolder.GetFolder
Service_GetFolder(svc, path) ==
    IF FolderExists(svc, path)
    THEN Returned([Path |-> PathOf(PathNames(path, <<>>))])
    ELSE Raised(com_error)

\* ITaskFolder.CreateFolder: the whole tree is created; a path that cannot
\* be used and a folder that is there already are both failures
Service_CreateFolder(svc, path) ==
    IF PathAllowed(path) /\ ~FolderExists(svc, path)
    THEN [service |-> [svc EXCEPT !.folders = @ \cup Tree(PathNames(path, <<>>))],
          call |-> Returned([Path |-> PathOf(PathNames(path, <<>>))])]
    ELSE [service |-> svc, call |-> Raised(com_error)]

\* ITaskFolder.DeleteFolder: fails for a folder that is not there, for the
\* root, and for a folder that still has folders in it
Service_DeleteFolder(svc, path) ==
    LET names == PathNames(path, <<>>)
    IN  IF /\ FolderExists(svc, path)
           /\ names # <<>>
           /\ SubFolders(svc, names) = {}
        THEN [service |-> [svc EXCEPT !.folders = @ \ {names}],
              call |-> Returned(None)]
        ELSE [service |-> svc, call |-> Raised(com_error)]

\* ITaskFolder.DeleteTask
Service_DeleteTask(svc, name) ==
    IF name \in svc.tasks
    THEN [service |-> [svc EXCEPT !.tasks = @ \ {name}], call |-> Returned(None)]
    ELSE [service |-> svc, call |-> Raised(com_error)]

\* ITaskFolder.RegisterTaskDefinition with Creation.CREATE_OR_UPDATE
Service_RegisterTaskDefinition(svc, name) ==
    [service |-> [svc EXCEPT !.tasks = @ \cup {name}],
     call |-> Returned([Name |-> name])]

\* TaskFolder.__eq__
TaskFolder_eq(self, other) ==
    IF ~("class" \in DOMAIN other /\ isinstance(other, TaskFolder)) THEN FALSE
    ELSE self.obj.Path = other.obj.Path

\* create_folder letting the failure of the service through
TaskFolder_create_folder_untranslated(svc, folder_name) ==
    LET made == Service_CreateFolder(svc, folder_name)
    IN  IF made.call.raised = None
        THEN [service |-> made.service,
              call |-> Returned(WrapperClass(TaskFolder, made.call.ret))]
        ELSE made

\* TaskFolder.create_folder
TaskFolder_create_folder(svc, folder_name) ==
    LET made == Service_CreateFolder(svc, folder_name)
    IN  IF made.call.raised = com_error
        THEN [service |-> made.service, call |-> Raised(TaskFolderExists)]
        ELSE [service |-> made.service,
              call |-> Returned(WrapperClass(TaskFolder, made.call.ret))]

\* TaskFolder.delete_folder
TaskFolder_delete_folder(svc, folder_name) ==
    LET gone == Service_DeleteFolder(svc, folder_name)
    IN  IF gone.call.raised = com_error
        THEN [service |-> gone.service, call |-> Raised(TaskFolderNotFound)]
        ELSE gone

\* TaskFolder.delete_task: no try around DeleteTask
TaskFolder_delete_task(svc, name) == Service_DeleteTask(svc, name)

\* TaskFolder.get_folder
TaskFolder_get_folder(svc, path) ==
    LET got == Service_GetFolder(svc, path)
    IN  IF got.raised = com_error THEN Raised(TaskFolderNotFound)
        ELSE Returned(WrapperClass(TaskFolder, got.ret))

\* TaskService.get_folder, on the connected service
TaskService_get_folder(svc, path) ==
    LET got == Service_GetFolder(svc, path)
    IN  IF got.raised = com_error THEN Raised(TaskFolderNotFound)
        ELSE Returned(WrapperClass(TaskFolder, got.ret))

\* TaskFolder.register_task_definition
TaskFolder_register_task_definition(svc, name) ==
    LET made == Service_RegisterTaskDefinition(svc, name)
    IN  [service |-> made.service,
         call |-> Returned(WrapperClass(RegisteredTask, made.call.ret))]

\* the paths handed to the root folder
FolderArguments ==
    {<<"a">>, <<"\\", "a">>, <<"a", "\\", "b">>, <<"\\", "a", "\\", "b">>,
     <<"c">>, <<".", ".">>, Root}

\* the paths of folders, as handed to the service
FolderPaths == {PathOf(PathNames(p, <<>>)) : p \in FolderArguments \ {<<".", ".">>}}

TaskNames == {<<"t">>, <<"u">>}

\* held: the wrapper the latest create_folder returned for each path;
\* remaining: the paths deleted and not created again since
InitFolder ==
    /\ service = [folders |-> {}, tasks |-> {}]
    /\ held = [p \in FolderPaths |-> None]
    /\ remaining = {}
    /\ outcome = NoCall
    /\ calls = <<>>
    /\ input = None

\* a call on a path, with what held for the path when the call was made
OnPath(op, path, call) ==
    [op |-> op, arg |-> path,
     existed |-> FolderExists(service, path),
     deleted |-> PathAllowed(path) /\ PathOf(PathNames(path, <<>>)) \in remaining,
     created |-> IF PathAllowed(path) THEN held[PathOf(PathNames(path, <<>>))]
                 ELSE None,
     ret |-> call.ret, raised |-> call.raised]

\* ROOT.create_folder(folder_name)
CreateFolder ==
    /\ \E path \in FolderArguments :
         LET made == TaskFolder_create_folder(service, path)
         IN  /\ service' = made.service
             /\ outcome' = OnPath("create_folder", path, made.call)
             /\ IF made.call.raised = None
                THEN /\ held' = [held EXCEPT ![made.call.ret.obj.Path] = made.call.ret]
                     /\ remaining' = remaining \ {PathOf(n) : n \in made.service.folders}
                ELSE UNCHANGED <<held, remaining>>
    /\ UNCHANGED codec

\* ROOT.delete_folder(folder_name)
DeleteFolder ==
    /\ \E path \in FolderArguments :
         LET gone == TaskFolder_delete_folder(service, path)
         IN  /\ service' = gone.service
             /\ outcome' = OnPath("delete_folder", path, gone.call)
             /\ IF gone.call.raised = None
                THEN remaining' = remaining \cup {PathOf(PathNames(path, <<>>))}
                ELSE UNCHANGED remaining
    /\ UNCHANGED <<held, codec>>

\* ROOT.get_folder(path)
GetFolder ==
    /\ \E path \in FolderArguments :
         outcome' = OnPath("get_folder", path, TaskFolder_get_folder(service, path))
    /\ UNCHANGED <<service, held, remaining, codec>>

\* SERVICE.get_folder(folder.path)
ServiceGetFolder ==
    /\ \E path \in FolderPaths :
         outcome' = OnPath("SERVICE.get_folder", path,
                           TaskService_get_folder(service, path))
    /\ UNCHANGED <<service, held, remaining, codec>>

\* ROOT.register_task_definition(name, ...)
RegisterTaskDefinition ==
    /\ \E name \in TaskNames :
         LET made == TaskFolder_register_task_definition(service, name)
         IN  /\ service' = made.service
             /\ outcome' = [op |-> "register_task_definition", arg |-> name,
                            registered |-> name \in service.tasks,
                            ret |-> made.call.ret, raised |-> made.call.raised]
    /\ UNCHANGED <<held, remaining, codec>>

\* ROOT.delete_task(name)
DeleteTask ==
    /\ \E name \in TaskNames :
         LET gone == TaskFolder_delete_task(service, name)
         IN  /\ service' = gone.service
             /\ outcome' = [op |-> "delete_task", arg |-> name,
                            registered |-> name \in service.tasks,
                            ret |-> gone.call.ret, raised |-> gone.call.raised]
    /\ UNCHANGED <<held, remaining, codec>>

FolderNext ==
    \/ CreateFolder \/ DeleteFolder \/ GetFolder \/ ServiceGetFolder
    \/ RegisterTaskDefinition \/ DeleteTask

FolderSpec == InitFolder /\ [][FolderNext]_vars

(***************************************************************************)
(* TaskSettings.priority over the Priority the service keeps.              *)
(***************************************************************************)
\* the setter forwarding every value
TaskSettings_priority_set_unchecked(svc, value) ==
    [service |-> [svc EXCEPT !.Priority = value], call |-> Returned(None)]

\* TaskSettings.priority setter
TaskSettings_priority_set(svc, value) ==
    IF value < 0 \/ value > 10
    THEN [service |-> svc, call |-> Raised(ValueError)]
    ELSE [service |-> [svc EXCEPT !.Priority = value], call |-> Returned(None)]

\* TaskSettings.priority
TaskSettings_priority(svc) == Returned([int |-> svc.Priority])

\* the values assigned to priority
PriorityArguments == (0 - 2)..12

\* the Priority of a new task definition is 7
InitPriority ==
    /\ service = [Priority |-> 7]
    /\ outcome = NoCall
    /\ held = None
    /\ remaining = <<>>
    /\ calls = <<>>
    /\ input = None

\* settings.priority = value; calls keeps the latest write
WritePriority ==
    /\ \E value \in PriorityArguments :
         LET set == TaskSettings_priority_set(service, value)
         IN  /\ service' = set.service
             /\ outcome' = [op |-> "priority=", arg |-> value,
                            before |-> service.Priority,
                            ret |-> set.call.ret, raised |-> set.call.raised]
             /\ calls' = <<[fn |-> "priority=", value |-> value,
                            before |-> service.Priority,
                            raised |-> set.call.raised]>>
    /\ UNCHANGED <<held, remaining, input>>

\* settings.priority
ReadPriority ==
    /\ LET got == TaskSettings_priority(service)
       IN  outcome' = [op |-> "priority", ret |-> got.ret, raised |-> got.raised]
    /\ UNCHANGED <<service, held, remaining, calls, input>>

PriorityNext == WritePriority \/ ReadPriority

PrioritySpec == InitPriority /\ [][PriorityNext]_vars

(***************************************************************************)
(* TaskNamedValuePair over the Name and the Value the service keeps.       *)
(***************************************************************************)
\* __getitem__ indexing as a tuple does, from the end for an index below 0
TaskNamedValuePair_getitem_tuple(svc, index) ==
    IF index \in {0, 0 - 2} THEN Returned(svc.Name)
    ELSE IF index \in {1, 0 - 1} THEN Returned(svc.Value)
    ELSE Raised(IndexError)

\* TaskNamedValuePair.__getitem__
TaskNamedValuePair_getitem(svc, index) ==
    IF index = 0 THEN Returned(svc.Name)
    ELSE IF index = 1 THEN Returned(svc.Value)
    ELSE Raised(IndexError)

\* TaskNamedValuePair.__len__
TaskNamedValuePair_len(svc) == Returned([int |-> 2])

\* tuple(pair): __iter__ over (self.name, self.value)
TaskNamedValuePair_iter(svc) == Returned(<<svc.Name, svc.Value>>)

\* the strings given to create and to the setters
PairStrings == {<<>>, <<"N", "a", "m", "e", "1">>, <<"V", "a", "l", "u", "e", "1">>}

PairIndices == (0 - 3)..3

\* pair = value_queries.create(name, value)
InitPair ==
    /\ \E name \in PairStrings : \E value \in PairStrings :
         service = [Name |-> name, Value |-> value]
    /\ outcome = NoCall
    /\ held = None
    /\ remaining = <<>>
    /\ calls = <<>>
    /\ input = None

\* len(pair)
PairLen ==
    /\ LET got == TaskNamedValuePair_len(service)
       IN  outcome' = [op |-> "__len__", ret |-> got.ret, raised |-> got.raised]
    /\ UNCHANGED <<service, held, remaining, codec>>

\* pair[index]
PairGetItem ==
    /\ \E index \in PairIndices :
         LET got == TaskNamedValuePair_getitem(service, index)
         IN  outcome' = [op |-> "__getitem__", arg |-> index,
                         ret |-> got.ret, raised |-> got.raised]
    /\ UNCHANGED <<service, held, remaining, codec>>

\* tuple(pair)
PairIterate ==
    /\ LET got == TaskNamedValuePair_iter(service)
       IN  outcome' = [op |-> "__iter__", ret |-> got.ret, raised |-> got.raised]
    /\ UNCHANGED <<service, held, remaining, codec>>

\* pair.name = value
PairSetName ==
    /\ \E value \in PairStrings :
         /\ service' = [service EXCEPT !.Name = value]
         /\ outcome' = [op |-> "name=", arg |-> value, ret |-> None,
                        raised |-> None]
    /\ UNCHANGED <<held, remaining, codec>>

\* pair.value = value
PairSetValue ==
    /\ \E value \in PairStrings :
         /\ service' = [service EXCEPT !.Value = value]
         /\ outcome' = [op |-> "value=", arg |-> value, ret |-> None,
                        raised |-> None]
    /\ UNCHANGED <<held, remaining, codec>>

\* pair.name
PairName ==
    /\ outcome' = [op |-> "name", ret |-> service.Name, raised |-> None]
    /\ UNCHANGED <<service, held, remaining, codec>>

\* pair.value
PairValue ==
    /\ outcome' = [op |-> "value", ret |-> service.Value, raised |-> None]
    /\ UNCHANGED <<service, held, remaining, codec>>

PairNext ==
    \/ PairLen \/ PairGetItem \/ PairIterate \/ PairSetName \/ PairSetValue
    \/ PairName \/ PairValue

PairSpec == InitPair /\ [][PairNext]_vars

(***************************************************************************)
(* Properties of the duration codec.                                       *)
(***************************************************************************)
Fields == {"years", "months", "days", "hours", "minutes", "seconds"}

NonNegative(o) == \A f \in Fields : o[f] >= 0

SomeNonzero(o) == \E f \in Fields : o[f] # 0

SomePositive(o) == \E f \in Fields : o[f] > 0

IsFrom(i) == calls[i].fn = "from_duration_str"

IsTo(i) == calls[i].fn = "to_duration_str"

\* the grammar P(nY)?(nM)?(nD)?T(nH)?(nM)?(nS)?, stated on whole strings
IsNumeral(t) == Len(t) >= 1 /\ \A k \in 1..Len(t) : IsDigit(t[k])

IsComponent(t, unit) ==
    /\ Len(t) >= 2
    /\ IsNumeral(SubSeq(t, 1, Len(t) - 1))
    /\ t[Len(t)] \in {unit, LowerOf(unit)}

IsOptional(t, unit) == t = <<>> \/ IsComponent(t, unit)

IsTriple(t, u1, u2, u3) ==
    \E a \in 0..Len(t) : \E b \in a..Len(t) :
        /\ IsOptional(SubSeq(t, 1, a), u1)
        /\ IsOptional(SubSeq(t, a + 1, b), u2)
        /\ IsOptional(SubSeq(t, b + 1, Len(t)), u3)

IsSentence(s) ==
    /\ Len(s) >= 2
    /\ s[1] \in {"P", "p"}
    /\ \E k \in 2..Len(s) :
          /\ s[k] \in {"T", "t"}
          /\ IsTriple(SubSeq(s, 2, k - 1), "Y", "M", "D")
          /\ IsTriple(SubSeq(s, k + 1, Len(s)), "H", "M", "S")

\* the styles whose string is a whole sentence of the grammar
SentenceStyles == {"plain", "lower", "padded"}

\* the integers written in the input, component by component
WrittenValue(k) == TokenValue(input.written.comps[k])

WrittenSentence ==
    /\ input.kind = "string"
    /\ input.written # None
    /\ input.written.style \in SentenceStyles
    /\ \E k \in 1..6 : WrittenValue(k) # 0

\* C1: encoding an offset with non-negative components, one of them
\* nonzero, under any default and decoding the text gives the offset back.
C1_OffsetRoundTrip ==
    \A i \in 1..(Len(calls) - 1) :
        (/\ IsTo(i)
         /\ IsFrom(i + 1)
         /\ calls[i + 1].string = calls[i].string
         /\ calls[i].rd # None
         /\ NonNegative(calls[i].rd)
         /\ SomeNonzero(calls[i].rd))
        => calls[i + 1].rd = calls[i].rd

C1_Witness ==
    /\ Len(calls) = 2
    /\ IsTo(1)
    /\ IsFrom(2)
    /\ calls[1].default = [given |-> TRUE, text |-> <<>>]
    /\ calls[1].rd = [years |-> 1, months |-> 1, days |-> 0,
                      hours |-> 0, minutes |-> 1, seconds |-> 1]
    /\ calls[2].rd = calls[1].rd

\* C2 as stated: a sentence with a nonzero component decodes to exactly the
\* integers written in it, whatever their magnitude, missing ones being 0.
C2_ExactComponents ==
    (WrittenSentence /\ Len(calls) >= 1)
    => calls[1].rd = [years   |-> WrittenValue(1), months  |-> WrittenValue(2),
                      days    |-> WrittenValue(3), hours   |-> WrittenValue(4),
                      minutes |-> WrittenValue(5), seconds |-> WrittenValue(6)]

WithinCarryLimits ==
    /\ WrittenValue(2) <= 11
    /\ WrittenValue(4) <= 23
    /\ WrittenValue(5) <= 59
    /\ WrittenValue(6) <= 59

\* C2 amended: a sentence with a nonzero component decodes to the written
\* integers exactly when months <= 11, hours <= 23, minutes <= 59 and
\* seconds <= 59; beyond that the excess is carried (seconds to minutes,
\* minutes to hours, hours to days, months to years) and the totals are kept.
C2_CarriedComponents ==
    (WrittenSentence /\ Len(calls) >= 1)
    => /\ calls[1].rd # None
       /\ LET r == calls[1].rd
          IN  /\ r.years * 12 + r.months = WrittenValue(1) * 12 + WrittenValue(2)
              /\ ((r.days * 24 + r.hours) * 60 + r.minutes) * 60 + r.seconds
                 = ((WrittenValue(3) * 24 + WrittenValue(4)) * 60
                    + WrittenValue(5)) * 60 + WrittenValue(6)
              /\ r.months \in 0..11
              /\ r.hours \in 0..23
              /\ r.minutes \in 0..59
              /\ r.seconds \in 0..59
              /\ r.years >= 0
              /\ r.days >= WrittenValue(3)
              /\ WithinCarryLimits =>
                    r = [years   |-> WrittenValue(1), months  |-> WrittenValue(2),
                         days    |-> WrittenValue(3), hours   |-> WrittenValue(4),
                         minutes |-> WrittenValue(5), seconds |-> WrittenValue(6)]

C2_Witness ==
    /\ WrittenSentence
    /\ Len(calls) >= 1
    /\ input.string = <<"P", "1", "Y", "T", "1", "H", "6", "0", "S">>
    /\ calls[1].rd = [years |-> 1, months |-> 0, days |-> 0,
                      hours |-> 1, minutes |-> 1, seconds |-> 0]

\* C3 as stated: a string that is not as a whole a sentence of the grammar
\* decodes to None.
C3_MalformedIsAbsent ==
    \A i \in 1..Len(calls) :
        (IsFrom(i) /\ ~IsSentence(calls[i].string)) => calls[i].rd = None

\* a sentence whose numerals are all zero
AllZeroSentence(s) ==
    IsSentence(s) /\ \A k \in 1..Len(s) : IsDigit(s[k]) => s[k] = "0"

\* C4: a sentence whose every component is zero or missing decodes to None,
\* and so does the encoding of None under the default "PT0S".
C4_ZeroNormalization ==
    \A i \in 1..Len(calls) :
        /\ (IsFrom(i) /\ AllZeroSentence(calls[i].string)) => calls[i].rd = None
        /\ (/\ i > 1
            /\ IsFrom(i)
            /\ IsTo(i - 1)
            /\ calls[i - 1].rd = None
            /\ calls[i - 1].default.text = PT0S)
           => (calls[i].string = PT0S /\ calls[i].rd = None)

C4_Witness ==
    /\ Len(calls) = 1
    /\ IsFrom(1)
    /\ calls[1].string = <<"P", "0", "Y", "0", "M", "0", "D", "T",
                           "0", "H", "0", "M", "0", "S">>
    /\ calls[1].rd = None

ExpectedPart(n, unit) == IF n = 0 THEN <<>> ELSE str(n) \o <<unit>>

\* C6: a present offset with non-negative components, one of them nonzero,
\* is encoded as P, the nonzero Y, M, D components in that order, T in every
\* case, then the nonzero H, M, S components in that order.
C6_EncodeFormat ==
    \A i \in 1..Len(calls) :
        (IsTo(i) /\ calls[i].rd # None
         /\ NonNegative(calls[i].rd) /\ SomeNonzero(calls[i].rd))
        => calls[i].string =
              <<"P">> \o ExpectedPart(calls[i].rd.years, "Y")
                      \o ExpectedPart(calls[i].rd.months, "M")
                      \o ExpectedPart(calls[i].rd.days, "D")
              \o <<"T">> \o ExpectedPart(calls[i].rd.hours, "H")
                         \o ExpectedPart(calls[i].rd.minutes, "M")
                         \o ExpectedPart(calls[i].rd.seconds, "S")

C6_Witness ==
    /\ Len(calls) >= 1
    /\ IsTo(1)
    /\ calls[1].rd = [years |-> 1, months |-> 1, days |-> 0,
                      hours |-> 0, minutes |-> 0, seconds |-> 0]
    /\ calls[1].string = <<"P", "1", "Y", "1", "M", "T">>

IsolatedTexts ==
    {<<"P", "1", "Y", "T">>, <<"P", "1", "M", "T">>, <<"P", "1", "D", "T">>,
     <<"P", "T", "1", "H">>, <<"P", "T", "1", "M">>, <<"P", "T", "1", "S">>}

\* C7: decoding one of P1YT, P1MT, P1DT, PT1H, PT1M, PT1S and encoding the
\* result gives the same text back.
C7_ComponentIsolation ==
    \A i \in 1..(Len(calls) - 1) :
        (IsFrom(i) /\ IsTo(i + 1) /\ calls[i + 1].rd = calls[i].rd
         /\ calls[i].string \in IsolatedTexts)
        => calls[i + 1].string = calls[i].string

C7_Witness ==
    /\ Len(calls) = 2
    /\ IsFrom(1)
    /\ IsTo(2)
    /\ calls[1].string = <<"P", "1", "M", "T">>
    /\ calls[2].string = <<"P", "1", "M", "T">>

\* the upper-case sentence of the tokens of the written input
PlainSpelling == Written([input.written EXCEPT !.style = "plain"])

HasSeparator(s) == \E k \in 1..Len(s) : s[k] \in {"T", "t"}

\* C8: a lower-case spelling decodes to what the upper-case spelling decodes
\* to; a string without the T separator decodes to None; a component written
\* out of its place is not read.
C8_GrammarShape ==
    /\ \A i \in 1..Len(calls) :
          (IsFrom(i) /\ ~HasSeparator(calls[i].string)) => calls[i].rd = None
    /\ (Len(calls) >= 1 /\ input.kind = "string" /\ input.written # None) =>
          /\ input.written.style = "lower"
                => calls[1].rd = from_duration_str(PlainSpelling)
          /\ input.written.style = "extra"
                => calls[1].rd \in {None, from_duration_str(PlainSpelling)}

C8_Witness ==
    /\ Len(calls) >= 1
    /\ input.kind = "string"
    /\ input.string = <<"p", "1", "y", "t", "1", "s">>
    /\ calls[1].rd = [years |-> 1, months |-> 0, days |-> 0,
                      hours |-> 0, minutes |-> 0, seconds |-> 1]

(***************************************************************************)
(* Properties of the date codec.                                           *)
(***************************************************************************)
IsFromDate(i) == calls[i].fn = "from_date_str"

\* C9: the empty string decodes to None, without an error, both as a
\* duration and as a date.
C9_EmptyString ==
    \A i \in 1..Len(calls) :
        /\ (IsFrom(i) /\ calls[i].string = <<>>) => calls[i].rd = None
        /\ (IsFromDate(i) /\ calls[i].string = <<>>) => calls[i].dt = None

C9_Witness ==
    /\ Len(calls) = 1
    /\ IsFromDate(1)
    /\ calls[1].string = <<>>
    /\ calls[1].dt = None

\* a written date string that is an ISO-8601 calendar date-time: an existing
\* date, the separator T, an existing time of day, an optional UTC offset
IsoDateTime(w) ==
    /\ w # None
    /\ w.date.ok
    /\ w.separator = <<"T">>
    /\ w.time.ok
    /\ w.zone.ok
    /\ ~w.junk

DateOrDateTime(w) ==
    /\ w # None
    /\ w.date.ok
    /\ w.time.text = <<>> \/ (w.time.ok /\ w.zone.ok)
    /\ ~w.junk

\* the datetime a taken date string denotes
Denoted(w) ==
    [year |-> 2024, month |-> 2, day |-> 29,
     hour |-> w.time.hour, minute |-> w.time.minute, second |-> w.time.second,
     microsecond |-> 0,
     tzinfo |-> IF w.time.text = <<>> THEN None ELSE w.zone.tzinfo]

IsToDate(i) == calls[i].fn = "to_date_str"

\* a datetime of whole seconds: no microseconds in its time of day nor in
\* its UTC offset
SecondPrecision(dt) ==
    /\ dt.microsecond = 0
    /\ dt.tzinfo # None => dt.tzinfo.microseconds = 0

\* C11: a datetime of whole seconds, naive or with a fixed UTC offset,
\* is returned unchanged by from_date_str(to_date_str(dt)); to_date_str(None)
\* with the default left out is "" and from_date_str of it is None.
C11_InstantRoundTrip ==
    \A i \in 1..(Len(calls) - 1) :
        (IsToDate(i) /\ IsFromDate(i + 1)) =>
            /\ (calls[i].dt # None /\ SecondPrecision(calls[i].dt))
                  => calls[i + 1].dt = calls[i].dt
            /\ (calls[i].dt = None /\ ~calls[i].default.given)
                  => (calls[i].string = <<>> /\ calls[i + 1].dt = None)

C11_Witness ==
    /\ Len(calls) = 2
    /\ IsToDate(1)
    /\ IsFromDate(2)
    /\ calls[1].dt = [year |-> 2024, month |-> 2, day |-> 29,
                      hour |-> 10, minute |-> 30, second |-> 59,
                      microsecond |-> 0,
                      tzinfo |-> [offset |-> 0 - 19800, microseconds |-> 0]]
    /\ calls[1].string = <<"2", "0", "2", "4", "-", "0", "2", "-", "2", "9", "T",
                           "1", "0", ":", "3", "0", ":", "5", "9",
                           "-", "0", "5", ":", "3", "0">>
    /\ calls[2].dt = calls[1].dt

\* text of the shape YYYY-MM-DDTHH:MM:SS
IsSecondPrecisionText(t) ==
    /\ Len(t) = 19
    /\ \A k \in 1..19 :
          CASE k \in {5, 8}   -> t[k] = "-"
            [] k = 11         -> t[k] = "T"
            [] k \in {14, 17} -> t[k] = ":"
            [] OTHER          -> IsDigit(t[k])

\* text of the shape +HH:MM or -HH:MM
IsOffsetText(t) ==
    /\ Len(t) = 6
    /\ t[1] \in {"+", "-"}
    /\ IsDigit(t[2]) /\ IsDigit(t[3])
    /\ t[4] = ":"
    /\ IsDigit(t[5]) /\ IsDigit(t[6])

\* C12 as stated: for every datetime that is not None, to_date_str returns
\* YYYY-MM-DDTHH:MM:SS, optionally followed by +HH:MM or -HH:MM, and nothing
\* else.
C12_WireFormat ==
    \A i \in 1..Len(calls) :
        (IsToDate(i) /\ calls[i].dt # None) =>
            LET t == calls[i].string
            IN  \/ IsSecondPrecisionText(t)
                \/ /\ Len(t) = 25
                   /\ IsSecondPrecisionText(SubSeq(t, 1, 19))
                   /\ IsOffsetText(SubSeq(t, 20, 25))

(***************************************************************************)
(* Properties of the collections and of the dispatch on the kind.          *)
(***************************************************************************)
\* the kinds that have a variant, and the variant of each
RegisteredActions == {EXEC, COM_HANDLER, SEND_EMAIL, SHOW_MESSAGE}

RegisteredTriggers ==
    {EVENT, TIME, DAILY, WEEKLY, MONTHLY, MONTHLY_DOW, IDLE, REGISTRATION,
     BOOT, LOGON, SESSION_STATE_CHANGE}

ExpectedType(kind) ==
    CASE kind = EXEC -> ExecAction
      [] kind = COM_HANDLER -> ComHandlerAction
      [] kind = SEND_EMAIL -> EmailAction
      [] kind = SHOW_MESSAGE -> ShowMessageAction
      [] kind = EVENT -> EventTrigger
      [] kind = TIME -> TimeTrigger
      [] kind = DAILY -> DailyTrigger
      [] kind = WEEKLY -> WeeklyTrigger
      [] kind = MONTHLY -> MonthlyTrigger
      [] kind = MONTHLY_DOW -> MonthlyDOWTrigger
      [] kind = IDLE -> IdleTrigger
      [] kind = REGISTRATION -> RegistrationTrigger
      [] kind = BOOT -> BootTrigger
      [] kind = LOGON -> LogonTrigger
      [] kind = SESSION_STATE_CHANGE -> SessionStateChangeTrigger

\* the kind an element of the collection in use has
KindOf(element) ==
    [enum |-> IF service.collection = "ActionCollection"
              THEN "ActionType" ELSE "TriggerType",
     value |-> element.Type]

Registered(kind) == kind \in RegisteredActions \cup RegisteredTriggers

IsItemCall == outcome.op \in {"item", "__getitem__"}

\* the positions of the elements the caller counts on
Positions == 1..Len(remaining)

\* the first position whose element has no variant, 0 when there is none
FirstUnregistered ==
    LET bad == {k \in Positions : ~Registered(KindOf(remaining[k]))}
    IN  IF bad = {} THEN 0 ELSE CHOOSE k \in bad : \A j \in bad : k <= j

\* C13: for every kind that has a variant, the wrapper create(kind) returns,
\* the wrapper item(i) and collection[i] return for an element of that kind,
\* and the wrapper the iteration yields at its position are instances of the
\* variant of that kind, and the type each of them reports is that kind.
C13_DispatchConsistency ==
    service.collection \in Dispatching =>
      /\ (outcome.op = "create" /\ Registered(outcome.arg)) =>
            /\ outcome.raised = None
            /\ isinstance(outcome.ret, ExpectedType(outcome.arg))
      /\ (IsItemCall /\ outcome.arg \in Positions
          /\ Registered(KindOf(remaining[outcome.arg]))) =>
            /\ outcome.raised = None
            /\ isinstance(outcome.ret,
                          ExpectedType(KindOf(remaining[outcome.arg])))
      /\ outcome.op = "__iter__" =>
            \A k \in Positions :
                (FirstUnregistered = 0 \/ k < FirstUnregistered) =>
                    /\ k <= Len(outcome.yielded)
                    /\ isinstance(outcome.yielded[k],
                                  ExpectedType(KindOf(remaining[k])))
      /\ outcome.op = "type" =>
            /\ outcome.raised = None
            /\ outcome.ret = KindOf(outcome.wrapper.obj)
            /\ isinstance(outcome.wrapper, ExpectedType(outcome.ret))
            /\ outcome.of.op = "create" => outcome.ret = outcome.of.arg
            /\ outcome.of.op \in {"item", "__getitem__"} =>
                  outcome.ret = KindOf(remaining[outcome.of.arg])

C13_Witness ==
    /\ service.collection = "TriggerCollection"
    /\ Len(remaining) = 2
    /\ remaining[2].Type = DAILY.value
    /\ outcome.op = "type"
    /\ outcome.of.op = "__iter__"
    /\ outcome.wrapper = outcome.of.yielded[2]
    /\ outcome.wrapper.class = DailyTrigger
    /\ isinstance(outcome.wrapper, TimeTrigger)
    /\ outcome.ret = DAILY

\* the failures an unknown kind ends in
KindErrors == {RuntimeError, ValueError}

\* C14: a kind without a variant always ends in a raised error and never in
\* a wrapper or a class: get_action_class and get_trigger_class raise for
\* it; item(i), collection[i] and the iteration raise when they meet it, the
\* error being the one raised for the kind and not IndexError; create
\* raises and creates nothing.
C14_UnknownFailsClosed ==
    /\ outcome.op = "get_action_class" =>
          (outcome.arg \notin RegisteredActions =>
              (outcome.raised = RuntimeError /\ outcome.ret = None))
    /\ outcome.op = "get_trigger_class" =>
          (outcome.arg \notin RegisteredTriggers =>
              (outcome.raised = RuntimeError /\ outcome.ret = None))
    /\ service.collection \in Dispatching =>
          /\ (IsItemCall /\ outcome.arg \in Positions
              /\ ~Registered(KindOf(remaining[outcome.arg]))) =>
                (outcome.raised \in KindErrors /\ outcome.ret = None)
          /\ (outcome.op = "__iter__" /\ FirstUnregistered # 0) =>
                /\ outcome.raised \in KindErrors
                /\ Len(outcome.yielded) = FirstUnregistered - 1
          /\ (outcome.op = "create" /\ ~Registered(outcome.arg)) =>
                /\ outcome.raised = RuntimeError
                /\ outcome.ret = None
                /\ \A k \in 1..Len(service.items) :
                      service.items[k].Type # outcome.arg.value

C14_Witness ==
    /\ service.collection = "TriggerCollection"
    /\ Len(service.items) = 2
    /\ service.items[1].Type = CUSTOM_TRIGGER.value
    /\ outcome.op = "__getitem__"
    /\ outcome.arg = 1
    /\ outcome.raised = RuntimeError

\* C15 as stated: every member of ActionType and of TriggerType resolves to
\* a class, and two members never resolve to the same class.
C15_ExhaustiveOneToOne ==
    /\ \A a, b \in Members("ActionCollection") :
          a # b => get_action_class(a) # get_action_class(b)
    /\ \A a, b \in Members("TriggerCollection") :
          a # b => get_trigger_class(a) # get_trigger_class(b)
    /\ (outcome.op = "get_action_class"
        /\ outcome.arg \in Members("ActionCollection")) =>
          (outcome.raised = None /\ outcome.ret # None)
    /\ (outcome.op = "get_trigger_class"
        /\ outcome.arg \in Members("TriggerCollection")) =>
          (outcome.raised = None /\ outcome.ret # None)

\* C16: in each of the five collections item(i) and collection[i] raise
\* IndexError for i = 0 and for every i above the number of items; the
\* com_error of the service does not reach the caller.
C16_IndexErrorTranslation ==
    (service.collection \in Collections /\ IsItemCall) =>
        /\ (outcome.arg = 0 \/ outcome.arg > Len(service.items))
              => (outcome.raised = IndexError /\ outcome.ret = None)
        /\ outcome.raised # com_error

C16_Witness ==
    /\ service.collection = "TaskNamedValueCollection"
    /\ Len(service.items) = 2
    /\ outcome.op = "__getitem__"
    /\ outcome.arg = 3
    /\ outcome.raised = IndexError

\* C17: after any create, remove and clear calls, count and len() are the
\* number of elements that remain, item(i) and collection[i] hand back the
\* i-th of them in creation order as a wrapper of its variant, create puts
\* the new element last, and clear leaves none.
C17_OrderedSequence ==
    service.collection \in Dispatching =>
      /\ Len(service.items) = Len(remaining)
      /\ outcome.op \in {"count", "__len__"} => outcome.ret = Len(remaining)
      /\ (IsItemCall /\ outcome.arg \in Positions
          /\ Registered(KindOf(remaining[outcome.arg]))) =>
            /\ outcome.raised = None
            /\ outcome.ret.obj.id = remaining[outcome.arg].id
            /\ outcome.ret.obj.Type = remaining[outcome.arg].Type
            /\ outcome.ret.class = ExpectedType(KindOf(remaining[outcome.arg]))
      /\ (outcome.op = "create" /\ outcome.raised = None) =>
            /\ Len(remaining) >= 1
            /\ outcome.ret.obj.id = Last(remaining).id
            /\ Last(remaining).Type = outcome.arg.value
            /\ \A k \in 1..(Len(remaining) - 1) :
                  remaining[k].id < Last(remaining).id
      /\ outcome.op = "clear" => remaining = <<>>

C17_Witness ==
    /\ service.collection = "ActionCollection"
    /\ service.created = 3
    /\ Len(remaining) = 2
    /\ remaining[1].id = 1
    /\ remaining[2].id = 3
    /\ outcome.op = "item"
    /\ outcome.arg = 2
    /\ outcome.raised = None
    /\ outcome.ret.obj.id = 3
    /\ outcome.ret.class = ShowMessageAction

\* C20: the type an Action wrapper reports is the kind it was created or
\* wrapped with, at every read and whatever was called on the wrapper or on
\* its collection in between; the Type of its object is never written.
C20_FixedDiscriminator ==
    held # None =>
      /\ held.wrapper.obj.Type = held.kind.value
      /\ held.wrapper.cached_type \in {None, held.kind}
      /\ outcome.op = "held.type" =>
            (outcome.raised = None /\ outcome.ret = held.kind)

C20_Witness ==
    /\ held # None
    /\ held.kind = COM_HANDLER
    /\ held.wrapper.obj.Id = <<"a">>
    /\ service.items = <<>>
    /\ outcome.op = "held.type"
    /\ outcome.ret = COM_HANDLER

(***************************************************************************)
(* Properties of the cached sub-objects and of the duration properties.    *)
(***************************************************************************)
\* C18: on one wrapper a cached property hands back the same object at
\* every access, whatever is read or written in between, and the attribute
\* of the service is requested at most once through that wrapper.
C18_CachedSubObjects ==
    /\ \A i, j \in 1..Len(calls) :
          (calls[i].fn \in CachedNames /\ calls[j].fn = calls[i].fn
           /\ calls[j].owner = calls[i].owner)
          => calls[j].ret = calls[i].ret
    /\ \A owner \in Owners : \A attribute \in Attributes :
          service.requests[owner][attribute] <= 1

C18_Witness ==
    /\ Len(calls) = 4
    /\ calls[1].fn = "repetition" /\ calls[1].owner = "trigger"
    /\ calls[2].fn = "id=" /\ calls[2].owner = "trigger"
    /\ calls[3].fn = "repetition" /\ calls[3].owner = "same_trigger"
    /\ calls[4].fn = "repetition" /\ calls[4].owner = "trigger"
    /\ calls[4].ret = calls[1].ret
    /\ calls[3].ret # calls[1].ret
    /\ service.requests["trigger"]["Repetition"] = 1

\* C19 as stated: for every property the service keeps as a duration
\* string, writing an offset of non-negative components, one of them
\* nonzero, and then reading gives that offset back, and writing None and
\* then reading gives None.
C19_WriteThenRead ==
    \A i \in 1..(Len(calls) - 1) :
        (/\ calls[i].fn = "set" /\ calls[i + 1].fn = "get"
         /\ \/ calls[i].value = None
            \/ NonNegative(calls[i].value) /\ SomeNonzero(calls[i].value))
        => /\ calls[i].raised = None
           /\ calls[i + 1].ret = calls[i].value

(***************************************************************************)
(* Properties of TaskService.                                              *)
(***************************************************************************)
\* C21: every TaskService() call, whatever was called before it, returns
\* the same instance.
C21_Singleton ==
    \A i, j \in 1..Len(calls) :
        (calls[i].fn = "TaskService" /\ calls[j].fn = "TaskService")
        => calls[i].ret = calls[j].ret

C21_Witness ==
    /\ Len(calls) = 4
    /\ calls[1].fn = "TaskService"
    /\ calls[2].fn = "connect"
    /\ calls[3].fn = "TaskService"
    /\ calls[4].fn = "TaskService"
    /\ calls[4].ret = calls[1].ret

\* C27 as stated: a TaskService() call that comes after connect() leaves
\* the object the singleton holds and its connected state as they were
\* before the call.
C27_ConstructionKeepsConnection ==
    \A j \in 2..Len(calls) :
        (/\ calls[j].fn = "TaskService"
         /\ \E i \in 1..(j - 1) : calls[i].fn = "connect")
        => /\ calls[j].obj = calls[j - 1].obj
           /\ calls[j].connected = calls[j - 1].connected

(***************************************************************************)
(* Properties of the folders.                                              *)
(***************************************************************************)
IsGetFolder == outcome.op \in {"get_folder", "SERVICE.get_folder"}

\* C22: whatever create_folder and delete_folder calls came before,
\* get_folder(p) raises TaskFolderNotFound when p is not there, as it is
\* not after a delete_folder(p) that returned, and when p is there it
\* returns a TaskFolder of that path, equal to the one create_folder(p)
\* returned; create_folder(p) raises TaskFolderExists when p is there;
\* delete_folder(p) raises TaskFolderNotFound when p is not there.
C22_FolderExistence ==
    /\ (IsGetFolder /\ ~outcome.existed) =>
          (outcome.raised = TaskFolderNotFound /\ outcome.ret = None)
    /\ (IsGetFolder /\ outcome.deleted) => outcome.raised = TaskFolderNotFound
    /\ (IsGetFolder /\ outcome.existed) =>
          /\ outcome.raised = None
          /\ isinstance(outcome.ret, TaskFolder)
          /\ outcome.ret.obj.Path = PathOf(PathNames(outcome.arg, <<>>))
          /\ outcome.created # None =>
                (TaskFolder_eq(outcome.ret, outcome.created)
                 /\ TaskFolder_eq(outcome.created, outcome.ret))
    /\ (outcome.op = "create_folder" /\ outcome.existed) =>
          outcome.raised = TaskFolderExists
    /\ (outcome.op = "delete_folder" /\ ~outcome.existed) =>
          outcome.raised = TaskFolderNotFound

\* get_folder finds a folder that was deleted and created again
C22_Witness ==
    /\ outcome.op = "SERVICE.get_folder"
    /\ outcome.arg = <<"\\", "a", "\\", "b">>
    /\ outcome.existed
    /\ outcome.created # None
    /\ outcome.raised = None
    /\ <<"\\", "c">> \in remaining

\* get_folder after the delete_folder of the same path
C22_WitnessDeleted ==
    /\ outcome.op = "get_folder"
    /\ outcome.arg = <<"a", "\\", "b">>
    /\ outcome.deleted
    /\ outcome.raised = TaskFolderNotFound
    /\ << <<"a">> >> \in service.folders

\* C23 as stated: TaskFolderExists is raised by create_folder only for a
\* folder that is there, and TaskFolderNotFound by get_folder and
\* delete_folder only for a folder that is not there.
C23_DistinctConditions ==
    /\ (outcome.op = "create_folder" /\ outcome.raised = TaskFolderExists)
          => outcome.existed
    /\ (outcome.op \in {"get_folder", "SERVICE.get_folder", "delete_folder"}
        /\ outcome.raised = TaskFolderNotFound)
          => ~outcome.existed

\* C24 as stated: delete_task of a name that is not registered in the
\* folder raises TaskNotFound.
C24_DeleteTaskNotFound ==
    (outcome.op = "delete_task" /\ ~outcome.registered)
        => outcome.raised = TaskNotFound

(***************************************************************************)
(* Properties of single settings and of the name-value pair.               *)
(***************************************************************************)
\* C25 as stated: reading TaskSettings.delete_expired_task_after while the
\* service holds a string of the PnYnMnDTnHnMnS format returns the offset
\* that string spells and raises nothing, and writing an offset stores a
\* string of that format.
C25_DeleteExpiredTaskAfter ==
    (service.property = "TaskSettings.delete_expired_task_after"
     /\ calls # <<>>) =>
        /\ (Last(calls).fn = "get" /\ IsSentence(service.string)) =>
              Last(calls).ret = from_duration_str(service.string)
        /\ (Last(calls).fn = "set" /\ Last(calls).value # None) =>
              (Last(calls).raised = None /\ IsSentence(service.string))

\* C26: len(pair) is 2, pair[0] is the name and pair[1] the value the pair
\* has at that moment, every other index raises IndexError, and iterating
\* yields the name and then the value and nothing else.
C26_PairSequence ==
    /\ outcome.op = "__len__" => (outcome.raised = None /\ outcome.ret = [int |-> 2])
    /\ (outcome.op = "__getitem__" /\ outcome.arg = 0) =>
          (outcome.raised = None /\ outcome.ret = service.Name)
    /\ (outcome.op = "__getitem__" /\ outcome.arg = 1) =>
          (outcome.raised = None /\ outcome.ret = service.Value)
    /\ (outcome.op = "__getitem__" /\ outcome.arg \notin {0, 1}) =>
          (outcome.raised = IndexError /\ outcome.ret = None)
    /\ outcome.op = "__iter__" =>
          (outcome.raised = None /\ outcome.ret = <<service.Name, service.Value>>)

C26_Witness ==
    /\ outcome.op = "__getitem__"
    /\ outcome.arg = 0 - 1
    /\ outcome.raised = IndexError
    /\ service.Name = <<"V", "a", "l", "u", "e", "1">>
    /\ service.Value = <<>>

\* C29: assigning priority a value below 0 or above 10 raises ValueError and
\* leaves the Priority of the service as it was; assigning a value in 0..10
\* stores that value, and a read after it returns it.
C29_PriorityValidation ==
    /\ outcome.op = "priority=" =>
          IF outcome.arg < 0 \/ outcome.arg > 10
          THEN /\ outcome.raised = ValueError
               /\ service.Priority = outcome.before
          ELSE /\ outcome.raised = None
               /\ service.Priority = outcome.arg
    /\ (outcome.op = "priority" /\ calls # <<>>) =>
          /\ outcome.raised = None
          /\ outcome.ret = [int |-> IF calls[1].raised = None
                                     THEN calls[1].value ELSE calls[1].before]
    /\ service.Priority \in 0..10

C29_Witness ==
    /\ outcome.op = "priority"
    /\ calls # <<>>
    /\ calls[1].value = 11
    /\ calls[1].raised = ValueError
    /\ calls[1].before = 0
    /\ outcome.ret = [int |-> 0]


\* <n><unit> for a positive n, nothing otherwise
PositivePart(n, unit) == IF n > 0 THEN str(n) \o <<unit>> ELSE <<>>

\* the text to_duration_str builds from the positive components
PositiveParts(rd) ==
    <<"P">> \o PositivePart(rd.years, "Y") \o PositivePart(rd.months, "M")
            \o PositivePart(rd.days, "D")
    \o <<"T">> \o PositivePart(rd.hours, "H") \o PositivePart(rd.minutes, "M")
               \o PositivePart(rd.seconds, "S")

\* a numeral of the text that spells zero: digits, all of them "0", between
\* two characters that are not digits
HasZeroNumeral(s) ==
    \E a \in 1..Len(s) : \E b \in a..Len(s) :
        /\ \A k \in a..b : s[k] = "0"
        /\ (a = 1 \/ ~IsDigit(s[a - 1]))
        /\ (b = Len(s) \/ ~IsDigit(s[b + 1]))

\* C28: for every offset, one with components below zero included,
\* to_duration_str returns the default or a whole sentence of the decode
\* grammar: P, the positive components with their units in order, T among
\* them, no minus sign and no zero numeral; a component that is not
\* positive is left out.
C28_WellFormedOutput ==
    \A i \in 1..Len(calls) :
        (IsTo(i) /\ calls[i].rd # None) =>
            \/ calls[i].string = calls[i].default.text
            \/ /\ IsSentence(calls[i].string)
               /\ \A k \in 1..Len(calls[i].string) : calls[i].string[k] # "-"
               /\ ~HasZeroNumeral(calls[i].string)
               /\ calls[i].string = PositiveParts(calls[i].rd)

C28_Witness ==
    /\ Len(calls) >= 1
    /\ IsTo(1)
    /\ calls[1].rd = [years |-> 1, months |-> 0, days |-> 0 - 1,
                      hours |-> 0, minutes |-> 0, seconds |-> 0]
    /\ calls[1].string = <<"P", "1", "Y", "T">>

\* C30 as stated: RunningTaskCollection.item(i) and collection[i] raise
\* IndexError for i = 0 and for every i above the number of running tasks.
C30_RunningIndexError ==
    (/\ service.collection = "RunningTaskCollection"
     /\ IsItemCall
     /\ (outcome.arg = 0 \/ outcome.arg > Len(service.items)))
    => outcome.raised = IndexError

====
